---- MODULE Spec2Model ----
(***************************************************************************)
(* FlockFinder: the WiGLE search / BSSID filter pipeline and the OSM       *)
(* boundary resolver with its on-disk cache, as state machines.            *)
(*                                                                         *)
(*   Spec        main() of src/src/flockfinder/main.py and                 *)
(*               search_multiple_ssids() of wigle_api.py, one action per   *)
(*               call the driver makes                                     *)
(*   SpecFilter  filter_by_bssid_prefixes() applied to drawn inputs        *)
(*   SpecOSM     get_available_countries() / get_admin_divisions() over    *)
(*               the cache files and the clock                             *)
(*   SpecBox     calculate_bounding_box() / validate_bounding_box()        *)
(*   SpecScript  main() of the single-file script src/flockfinder.py       *)
(*   SpecClean   clean_network_data() applied to drawn inputs              *)
(*   SpecCompose deduplication and filter applied in both orders           *)
(***************************************************************************)
EXTENDS Integers, Sequences, FiniteSets, TLC

VARIABLES
    \* ---- pipeline (main.py, wigle_api.py)
    driver,             \* which function drives: "main", "search_multiple_ssids", ...
    pc,                 \* position in the driver
    bssid_prefixes,     \* load_bssid_prefixes()
    ssid_prefixes,      \* load_ssid_prefixes() / the ssid_patterns argument
    WIGLE_HEADER,       \* wigle_api.WIGLE_HEADER (module global)
    auth_log,           \* one entry per authenticate_wigle() call
    bounding_box,       \* the box the scan uses
    wigle_state_code,   \* main(): third element of the boundary result (<<>> for None)
    idx,                \* 1-based index of the next pattern of the for loop
    all_networks,       \* accumulator of the for loop
    filtered_networks,  \* main(): result of filter_by_bssid_prefixes
    final_networks,     \* search_multiple_ssids(): its return value
    exported,           \* what display_final_summary / the export layer received
    exit_code,          \* "running", "0" (main returned) or "1" (sys.exit(1))
    searched,           \* history: patterns passed to search_by_coordinates, in call order
    served,             \* history: per search, the last answer of the server's stream
    last_call,          \* history: the last make_wigle_request call
    \* ---- resolver and cache (osm_boundaries.py)
    now,                \* time.time(), whole seconds
    cache,              \* cache file name -> file content or NoFile
    storage,            \* the cache location: "ok", "no_dir" (os.makedirs fails)
                        \* or "read_only" (the directory is there, open(.., 'w') fails)
    DEBUG_MODE,         \* config.DEBUG_MODE
    osm_call,           \* history: the last resolver call
    osm_calls,          \* number of resolver calls made
    waited,             \* the last step only let time pass
    \* ---- bounding boxes (osm_boundaries.py), called on their own
    box_pc,             \* "idle" | "calculate" | "validate" | "done"
    coords_arg,         \* the argument of calculate_bounding_box
    bbox_arg,           \* the argument of validate_bounding_box
    box_call            \* history: the call made and what it returned

pipeVars == <<driver, pc, bssid_prefixes, ssid_prefixes, WIGLE_HEADER, auth_log,
              bounding_box, wigle_state_code, idx, all_networks, filtered_networks,
              final_networks, exported, exit_code, searched, served, last_call>>
osmVars == <<now, cache, storage, DEBUG_MODE, osm_call, osm_calls, waited>>
boxVars == <<box_pc, coords_arg, bbox_arg, box_call>>
vars == <<pipeVars, osmVars, boxVars>>

(***************************************************************************)
(* Bounds of the model.                                                    *)
(***************************************************************************)
MaxResults == 2        \* records in one WiGLE answer
MaxRateLimited == 2    \* consecutive HTTP 429 answers the server gives to one call
MaxNetworks == 3       \* length of the list handed to the filter in SpecFilter
MaxOverpass429 == 1    \* consecutive HTTP 429 answers Overpass gives to one query
MaxCalls == 2          \* resolver calls in one behaviour of SpecOSM
MaxCoords == 3         \* length of the coordinate list in SpecBox
MaxClean == 2          \* length of the list handed to clean_network_data in SpecClean

(***************************************************************************)
(* Python values.                                                          *)
(***************************************************************************)
None == [none |-> TRUE]

\* dict.get(key, default)
get(d, key, default) ==
    IF key \in DOMAIN d THEN d[key] ELSE default

\* Strings whose characters the code inspects are sequences of characters.
upper_char(c) ==
    CASE c = "a" -> "A"
      [] c = "b" -> "B"
      [] c = "c" -> "C"
      [] c = "d" -> "D"
      [] c = "e" -> "E"
      [] c = "f" -> "F"
      [] OTHER -> c

\* str.upper()
upper(s) ==
    [k \in 1..Len(s) |-> upper_char(s[k])]

\* s[:n]
slice_to(s, n) ==
    SubSeq(s, 1, IF Len(s) < n THEN Len(s) ELSE n)

PREFIX_LEN == 8

(***************************************************************************)
(* Sample values: BSSIDs, prefixes and SSID patterns.                      *)
(***************************************************************************)
PfxFlockUpper == <<"0", "0", ":", "F", "4", ":", "8", "D">>
PfxFlockLower == <<"0", "0", ":", "f", "4", ":", "8", "d">>
PfxABCUpper == <<"A", "A", ":", "B", "B", ":", "C", "C">>
PfxABCLower == <<"a", "a", ":", "b", "b", ":", "c", "c">>
PfxOther == <<"1", "2", ":", "3", "4", ":", "5", "6">>
TailOctets == <<":", "1", "1", ":", "2", "2", ":", "3", "3">>
TooShort == <<"0", "0", ":", "F", "4", ":", "8">>

\* The two configured SSID patterns and the ssid the server reports for each.
Pattern1 == "flock-%"
Pattern2 == "Flock%"
SsidOf(pattern) ==
    IF pattern = Pattern1 THEN "flock-1234" ELSE "Flock5678"

\* Sequences over S of length at most n.
SeqsUpTo(S, n) ==
    UNION {[1..k -> S] : k \in 0..n}

(***************************************************************************)
(* wigle_api.py: the search client.                                        *)
(***************************************************************************)
RATE_LIMIT_DELAY == 1
BACKOFF_SECONDS == 60

\* An HTTP exchange as requests.get / requests.post reports it: either the
\* call raised RequestException, or it returned a status and a body.
Raised == [raised |-> TRUE, status |-> 0, body |-> None]
Answer(status, body) == [raised |-> FALSE, status |-> status, body |-> body]
RateLimited == Answer(429, None)
ServerError == Answer(500, None)

\* Streams the server may answer one call with: up to MaxRateLimited answers
\* 429, then one answer of `terminal`.
Streams(terminal) ==
    {[k \in 1..(n + 1) |-> IF k <= n THEN RateLimited ELSE t] :
        n \in 0..MaxRateLimited, t \in terminal}

\* What a call does besides computing: its sleeps and its HTTP requests, in order.
Sleep(seconds) == [ev |-> "sleep", secs |-> seconds]
Request == [ev |-> "request", secs |-> 0]

NoCall ==
    [made |-> FALSE, params |-> None, offered |-> <<>>, consumed |-> <<>>,
     data |-> None, events |-> <<>>]

RECURSIVE make_wigle_request(_, _, _)
\* A client without the retry: gives up on the first 429.
make_wigle_request_no_retry(header, params, resps) ==
    IF header = None
    THEN [data |-> None, events |-> <<>>, consumed |-> <<>>]
    ELSE LET response == Head(resps)
             sent == <<Sleep(RATE_LIMIT_DELAY), Request>>
         IN  IF ~response.raised /\ response.status = 200
             THEN [data |-> response.body, events |-> sent, consumed |-> <<response>>]
             ELSE [data |-> None, events |-> sent, consumed |-> <<response>>]

\* A client whose retry after a 429 goes out right after the 60 seconds.
RECURSIVE make_wigle_request_retry_without_delay(_, _, _)
make_wigle_request_retry_without_delay(header, params, resps) ==
    IF header = None
    THEN [data |-> None, events |-> <<>>, consumed |-> <<>>]
    ELSE LET response == Head(resps)
         IN  IF ~response.raised /\ response.status = 429
             THEN LET retry == make_wigle_request_retry_without_delay(
                                   header, params, Tail(resps))
                  IN  [data |-> retry.data,
                       events |-> <<Sleep(RATE_LIMIT_DELAY), Request,
                                    Sleep(BACKOFF_SECONDS)>> \o Tail(retry.events),
                       consumed |-> <<response>> \o retry.consumed]
             ELSE [data |-> IF ~response.raised /\ response.status = 200
                            THEN response.body ELSE None,
                   events |-> <<Sleep(RATE_LIMIT_DELAY), Request>>,
                   consumed |-> <<response>>]

\* make_wigle_request(endpoint, params) against the answers `resps`; returns the
\* data, the sleeps and requests it made in order, and the answers it consumed.
make_wigle_request(header, params, resps) ==
    IF header = None
    THEN [data |-> None, events |-> <<>>, consumed |-> <<>>]
    ELSE LET response == Head(resps)
             sent == <<Sleep(RATE_LIMIT_DELAY), Request>>
         IN  IF response.raised
             THEN [data |-> None, events |-> sent, consumed |-> <<response>>]
             ELSE IF response.status = 200
             THEN [data |-> response.body, events |-> sent, consumed |-> <<response>>]
             ELSE IF response.status = 429
             THEN LET retry == make_wigle_request(header, params, Tail(resps))
                  IN  [data |-> retry.data,
                       events |-> sent \o <<Sleep(BACKOFF_SECONDS)>> \o retry.events,
                       consumed |-> <<response>> \o retry.consumed]
             ELSE [data |-> None, events |-> sent, consumed |-> <<response>>]

\* Query parameters that never carry the state.
search_params_without_state(ssid_pattern, box, state_code) ==
    [ssidlike |-> ssid_pattern,
     latrange1 |-> box.south, latrange2 |-> box.north,
     longrange1 |-> box.west, longrange2 |-> box.east,
     onlymine |-> "false", freenet |-> "false", paynet |-> "false",
     results |-> "100", lastupdt |-> "20200101"]

\* The query parameters search_by_coordinates builds.
search_params(ssid_pattern, box, state_code) ==
    LET base == [ssidlike |-> ssid_pattern,
                 latrange1 |-> box.south, latrange2 |-> box.north,
                 longrange1 |-> box.west, longrange2 |-> box.east,
                 onlymine |-> "false", freenet |-> "false", paynet |-> "false",
                 results |-> "100", lastupdt |-> "20200101"]
    IN  IF state_code # <<>>
        THEN [k \in DOMAIN base \cup {"state"} |->
                 IF k = "state" THEN state_code ELSE base[k]]
        ELSE base

\* What search_by_coordinates returns for the data make_wigle_request gave.
search_result(data) ==
    IF data # None /\ get(data, "success", FALSE)
    THEN get(data, "results", <<>>)
    ELSE <<>>

search_by_coordinates(ssid_pattern, box, state_code, header, resps) ==
    LET params == search_params(ssid_pattern, box, state_code)
        r == make_wigle_request(header, params, resps)
    IN  [networks |-> search_result(r.data),
         call |-> [made |-> TRUE, params |-> params,
                   offered |-> IF r.consumed = <<>> THEN <<>> ELSE resps,
                   consumed |-> r.consumed, data |-> r.data, events |-> r.events]]

(***************************************************************************)
(* wigle_api.py: filtering and deduplication.                              *)
(***************************************************************************)
\* The test of flockfinder.py main(): the prefix compared as written.
prefix_matches_case_sensitive(bssid, prefixes) ==
    /\ Len(bssid) >= PREFIX_LEN
    /\ \E k \in 1..Len(prefixes) : slice_to(bssid, PREFIX_LEN) = prefixes[k]

\* The test of filter_by_bssid_prefixes on one bssid.
prefix_matches(bssid, prefixes) ==
    /\ Len(bssid) >= PREFIX_LEN
    /\ \E k \in 1..Len(prefixes) :
           upper(slice_to(bssid, PREFIX_LEN)) = upper(prefixes[k])

RECURSIVE filter_loop(_, _, _)
filter_loop(networks, prefixes, filtered_so_far) ==
    IF networks = <<>>
    THEN filtered_so_far
    ELSE LET network == Head(networks)
             bssid == get(network, "netid", <<>>)
         IN  filter_loop(Tail(networks), prefixes,
                         IF prefix_matches(bssid, prefixes)
                         THEN Append(filtered_so_far, network)
                         ELSE filtered_so_far)

\* A filter that collects its matches in front of the earlier ones.
filter_by_bssid_prefixes_prepending(networks, prefixes) ==
    LET kept == filter_loop(networks, prefixes, <<>>)
    IN  [k \in 1..Len(kept) |-> kept[Len(kept) + 1 - k]]

filter_by_bssid_prefixes(networks, prefixes) ==
    filter_loop(networks, prefixes, <<>>)

\* `if bssid` for bssid = network.get('netid'): the key is there and not empty.
has_bssid(network) ==
    "netid" \in DOMAIN network /\ network.netid # <<>>

RECURSIVE dedup_loop(_, _)
dedup_loop(networks, unique_so_far) ==
    IF networks = <<>>
    THEN unique_so_far
    ELSE LET network == Head(networks)
             seen == {unique_so_far[k].netid : k \in 1..Len(unique_so_far)}
         IN  dedup_loop(Tail(networks),
                        IF has_bssid(network) /\ network.netid \notin seen
                        THEN Append(unique_so_far, network)
                        ELSE unique_so_far)

RECURSIVE dedup_keep_last_loop(_, _)
dedup_keep_last_loop(networks, unique_so_far) ==
    IF networks = <<>>
    THEN unique_so_far
    ELSE LET network == Head(networks)
             seen == {unique_so_far[k].netid : k \in 1..Len(unique_so_far)}
         IN  dedup_keep_last_loop(Tail(networks),
                 IF ~has_bssid(network) THEN unique_so_far
                 ELSE IF network.netid \notin seen THEN Append(unique_so_far, network)
                 ELSE [k \in 1..Len(unique_so_far) |->
                          IF unique_so_far[k].netid = network.netid
                          THEN network ELSE unique_so_far[k]])

RECURSIVE dedup_by_ssid_loop(_, _)
dedup_by_ssid_loop(networks, unique_so_far) ==
    IF networks = <<>>
    THEN unique_so_far
    ELSE LET network == Head(networks)
             seen == {unique_so_far[k].ssid : k \in 1..Len(unique_so_far)}
         IN  dedup_by_ssid_loop(Tail(networks),
                                IF "ssid" \in DOMAIN network /\ network.ssid \notin seen
                                THEN Append(unique_so_far, network)
                                ELSE unique_so_far)

\* A deduplication whose key is the SSID.
unique_networks_by_ssid(networks) ==
    dedup_by_ssid_loop(networks, <<>>)

\* A deduplication whose dict entry is overwritten by every later duplicate.
unique_networks_keep_last(networks) ==
    dedup_keep_last_loop(networks, <<>>)

\* list(unique_networks.values()) of search_multiple_ssids: dict insertion order.
unique_networks(networks) ==
    dedup_loop(networks, <<>>)

(***************************************************************************)
(* osm_boundaries.py: bounding boxes.                                      *)
(***************************************************************************)
\* A coordinate pair as Python holds it: a tuple, or a list after json.load.
Coord(container, lon, lat) == [py |-> container, lon |-> lon, lat |-> lat]

Min(S) == CHOOSE x \in S : \A y \in S : x <= y
Max(S) == CHOOSE x \in S : \A y \in S : x >= y

\* A box whose south and north are exchanged.
calculate_bounding_box_swapped(coordinates) ==
    IF coordinates = <<>>
    THEN None
    ELSE LET lons == {coordinates[k].lon : k \in 1..Len(coordinates)}
             lats == {coordinates[k].lat : k \in 1..Len(coordinates)}
         IN  [west |-> Min(lons), east |-> Max(lons),
              south |-> Max(lats), north |-> Min(lats)]

\* A box whose west bound is the first vertex's longitude.
calculate_bounding_box_west_of_first(coordinates) ==
    IF coordinates = <<>>
    THEN None
    ELSE LET lons == {coordinates[k].lon : k \in 1..Len(coordinates)}
             lats == {coordinates[k].lat : k \in 1..Len(coordinates)}
         IN  [west |-> coordinates[1].lon, east |-> Max(lons),
              south |-> Min(lats), north |-> Max(lats)]

\* A function that answers an empty list with a box at the origin.
calculate_bounding_box_origin_if_empty(coordinates) ==
    IF coordinates = <<>>
    THEN [west |-> 0, east |-> 0, south |-> 0, north |-> 0]
    ELSE LET lons == {coordinates[k].lon : k \in 1..Len(coordinates)}
             lats == {coordinates[k].lat : k \in 1..Len(coordinates)}
         IN  [west |-> Min(lons), east |-> Max(lons),
              south |-> Min(lats), north |-> Max(lats)]

\* calculate_bounding_box(coordinates): None for an empty list.
calculate_bounding_box(coordinates) ==
    IF coordinates = <<>>
    THEN None
    ELSE LET lons == {coordinates[k].lon : k \in 1..Len(coordinates)}
             lats == {coordinates[k].lat : k \in 1..Len(coordinates)}
         IN  [west |-> Min(lons), east |-> Max(lons),
              south |-> Min(lats), north |-> Max(lats)]

MAX_LAT == 90
MAX_LON == 180
required_keys == {"north", "south", "east", "west"}

\* A validation that lets a box of no height or no width pass.
validate_bounding_box_non_strict(bbox) ==
    IF ~(required_keys \subseteq DOMAIN bbox) THEN FALSE
    ELSE IF bbox.north < bbox.south THEN FALSE
    ELSE IF bbox.east < bbox.west THEN FALSE
    ELSE IF bbox.north > MAX_LAT \/ bbox.south < -MAX_LAT THEN FALSE
    ELSE IF bbox.east > MAX_LON \/ bbox.west < -MAX_LON THEN FALSE
    ELSE TRUE

validate_bounding_box(bbox) ==
    IF ~(required_keys \subseteq DOMAIN bbox) THEN FALSE
    ELSE IF bbox.north <= bbox.south THEN FALSE
    ELSE IF bbox.east <= bbox.west THEN FALSE
    ELSE IF bbox.north > MAX_LAT \/ bbox.south < -MAX_LAT THEN FALSE
    ELSE IF bbox.east > MAX_LON \/ bbox.west < -MAX_LON THEN FALSE
    ELSE TRUE

\* A completed Python call: it returned `value` and raised nothing.
Return(fn, value) == [fn |-> fn, raised |-> FALSE, value |-> value]
NoBoxCall == [fn |-> "none"]

BoxIdle ==
    /\ box_pc = "idle"
    /\ coords_arg = <<>>
    /\ bbox_arg = None
    /\ box_call = NoBoxCall

(***************************************************************************)
(* osm_boundaries.py: the resolver and its cache.                          *)
(***************************************************************************)
\* The files of the cache directory; a file that is not there.
NoFile == [exists |-> FALSE]
CacheFiles ==
    {"countries.json", "US_admin_4.json", "US_admin_6.json", "CA_admin_4.json",
     "US_boundaries.json"}

TTL_SECONDS == 86400
DEBUG_NODE_LIMIT == 10

\* str.startswith
startswith(s, p) ==
    Len(s) >= Len(p) /\ SubSeq(s, 1, Len(p)) = p

\* str.replace(old, ''): every occurrence, left to right
RECURSIVE remove_all(_, _)
remove_all(s, old) ==
    IF s = <<>> THEN <<>>
    ELSE IF startswith(s, old) THEN remove_all(SubSeq(s, Len(old) + 1, Len(s)), old)
    ELSE <<Head(s)>> \o remove_all(Tail(s), old)

\* str(n) for n >= 0
Digits == <<"0", "1", "2", "3", "4", "5", "6", "7", "8", "9">>
RECURSIVE str(_)
str(n) ==
    IF n < 10 THEN <<Digits[n + 1]>>
    ELSE str(n \div 10) \o <<Digits[(n % 10) + 1]>>

\* `a or b` on strings ('' and a missing tag are both false)
or_else(a, b) ==
    IF a # <<>> THEN a ELSE b

\* A dict as the sequence of its items in insertion order; d[key] = value.
dict_set(d, key, value) ==
    IF \E k \in 1..Len(d) : d[k].key = key
    THEN [k \in 1..Len(d) |->
             IF d[k].key = key THEN [key |-> key, value |-> value] ELSE d[k]]
    ELSE Append(d, [key |-> key, value |-> value])

\* json.dump then json.load of a coordinate list: a tuple is written as an
\* array, and an array is read back as a list.
json_dump_coordinates(coordinates) ==
    [k \in 1..Len(coordinates) |->
        Coord("array", coordinates[k].lon, coordinates[k].lat)]

json_load_coordinates(coordinates) ==
    [k \in 1..Len(coordinates) |->
        Coord("list", coordinates[k].lon, coordinates[k].lat)]

json_dump_divisions(divisions) ==
    [k \in 1..Len(divisions) |->
        [key |-> divisions[k].key,
         value |-> [divisions[k].value EXCEPT
                       !.coordinates = json_dump_coordinates(@)]]]

json_load_divisions(text) ==
    [k \in 1..Len(text) |->
        [key |-> text[k].key,
         value |-> [text[k].value EXCEPT
                       !.coordinates = json_load_coordinates(@)]]]

\* A countries mapping holds strings only: written and read back as it is.
json_dump_countries(countries) == countries
json_load_countries(text) == text

\* A cache file the program wrote. `dumped` is not in the file: it is the
\* Python value that was handed to json.dump.
CacheEntry(timestamp, text, dumped) ==
    [exists |-> TRUE, timestamp |-> timestamp, text |-> text, dumped |-> dumped]

\* A cache that answers up to and including the 24th hour.
is_fresh_inclusive(timestamp, t) ==
    timestamp >= t - TTL_SECONDS

\* cached_data.get('timestamp', 0) > time.time() - 86400
is_fresh(timestamp, t) ==
    timestamp > t - TTL_SECONDS

BadJson == [invalid_json |-> TRUE]

RECURSIVE query_overpass(_)
\* query_overpass(query) against the answers `resps`.
query_overpass(resps) ==
    LET response == Head(resps)
        sent == <<Sleep(RATE_LIMIT_DELAY), Request>>
        failed == [data |-> None, events |-> sent, consumed |-> <<response>>,
                   reported |-> TRUE]
    IN  IF response.raised THEN failed
        ELSE IF response.status = 200
        THEN IF response.body = BadJson THEN failed
             ELSE [data |-> response.body, events |-> sent,
                   consumed |-> <<response>>, reported |-> FALSE]
        ELSE IF response.status = 429
        THEN LET retry == query_overpass(Tail(resps))
             IN  [data |-> retry.data,
                  events |-> sent \o <<Sleep(BACKOFF_SECONDS)>> \o retry.events,
                  consumed |-> <<response>> \o retry.consumed,
                  reported |-> retry.reported]
        ELSE failed

\* The seconds a call slept.
RECURSIVE Elapsed(_)
Elapsed(events) ==
    IF events = <<>> THEN 0 ELSE Head(events).secs + Elapsed(Tail(events))

\* `if not data or 'elements' not in data`
no_elements(data) ==
    data = None \/ "elements" \notin DOMAIN data

\* tags.get(key) with a missing tag read as ''
tag(tags, key) ==
    get(tags, key, <<>>)

RECURSIVE countries_loop(_, _)
countries_loop(elements, countries) ==
    IF elements = <<>> THEN countries
    ELSE LET tags == get(Head(elements), "tags", <<>>)
             iso_code == or_else(tag(tags, "ISO3166-1:alpha2"),
                                 tag(tags, "country_code_iso3166_1_alpha_2"))
             name == or_else(tag(tags, "name:en"), tag(tags, "name"))
         IN  countries_loop(Tail(elements),
                            IF iso_code # <<>> /\ name # <<>>
                            THEN dict_set(countries, iso_code, name)
                            ELSE countries)

\* An outcome in which a call that queried and returns nothing removes the
\* entry it had found.
Outcome_dropping_entry(op, file, entry, t, hit, q, result, raised, reported, files) ==
    [op |-> op, file |-> file,
     found |-> entry.exists,
     found_timestamp |-> IF entry.exists THEN entry.timestamp ELSE 0,
     read_at |-> t,
     hit |-> hit,
     queried |-> q.events # <<>>,
     offered |-> q.offered,
     events |-> q.events,
     result |-> result,
     raised |-> raised,
     reported_error |-> reported,
     cache |-> IF q.events # <<>> /\ result = <<>> /\ file \in DOMAIN files
               THEN [files EXCEPT ![file] = NoFile] ELSE files,
     clock |-> t + Elapsed(q.events)]

\* The outcome of one resolver call: what it returned (or that it raised),
\* what it did, and the cache and the clock it leaves.
Outcome(op, file, entry, t, hit, q, result, raised, reported, files) ==
    [op |-> op, file |-> file,
     found |-> entry.exists,
     found_timestamp |-> IF entry.exists THEN entry.timestamp ELSE 0,
     read_at |-> t,
     hit |-> hit,
     queried |-> q.events # <<>>,
     offered |-> q.offered,
     events |-> q.events,
     result |-> result,
     raised |-> raised,
     reported_error |-> reported,
     cache |-> files,
     clock |-> t + Elapsed(q.events)]

\* A cache hit that sends the query all the same.
EagerQuery ==
    [data |-> None, events |-> <<Sleep(RATE_LIMIT_DELAY), Request>>, consumed |-> <<>>,
     reported |-> FALSE, offered |-> <<>>]

\* No query was sent.
NoQuery == [data |-> None, events |-> <<>>, consumed |-> <<>>, reported |-> FALSE,
            offered |-> <<>>]

Queried(resps) ==
    LET q == query_overpass(resps)
    IN  [data |-> q.data, events |-> q.events, consumed |-> q.consumed,
         reported |-> q.reported, offered |-> resps]

\* The tail of both list operations: ensure_cache_directory(), then the
\* write inside try/except IOError, then return.
store_and_return(op, file, entry, t, q, files, store, text, result) ==
    IF store = "no_dir"
    THEN Outcome(op, file, entry, t, FALSE, q, <<>>, TRUE, q.reported, files)
    ELSE IF store = "read_only"
    THEN Outcome(op, file, entry, t, FALSE, q, result, FALSE, q.reported, files)
    ELSE Outcome(op, file, entry, t, FALSE, q, result, FALSE, q.reported,
                 [files EXCEPT ![file] =
                     CacheEntry(t + Elapsed(q.events), text, result)])

get_available_countries(files, t, store, resps) ==
    LET file == "countries.json"
        entry == files[file]
    IN  IF entry.exists /\ is_fresh(entry.timestamp, t)
        THEN Outcome("countries", file, entry, t, TRUE, NoQuery,
                     json_load_countries(entry.text), FALSE, FALSE, files)
        ELSE LET q == Queried(resps)
             IN  IF no_elements(q.data)
                 THEN Outcome("countries", file, entry, t, FALSE, q, <<>>, FALSE,
                              TRUE, files)
                 ELSE LET countries == countries_loop(q.data.elements, <<>>)
                      IN  store_and_return("countries", file, entry, t, q, files,
                                           store, json_dump_countries(countries),
                                           countries)

\* The loop over a way's nodes: with DEBUG_MODE on it breaks after the node
\* with index j = 11.
RECURSIVE nodes_loop(_, _, _, _)
nodes_loop(geometry, j, debug, coordinates) ==
    IF j >= Len(geometry) THEN coordinates
    ELSE LET node == geometry[j + 1]
             next == IF "lon" \in DOMAIN node /\ "lat" \in DOMAIN node
                     THEN Append(coordinates, Coord("tuple", node.lon, node.lat))
                     ELSE coordinates
         IN  IF j > DEBUG_NODE_LIMIT /\ debug THEN next
             ELSE nodes_loop(geometry, j + 1, debug, next)

RECURSIVE extract_coordinates_from_geometry(_, _)
extract_coordinates_from_geometry(members, debug) ==
    IF members = <<>> THEN <<>>
    ELSE LET member == Head(members)
         IN  (IF get(member, "type", "") = "way" /\ "geometry" \in DOMAIN member
              THEN nodes_loop(member.geometry, 0, debug, <<>>)
              ELSE <<>>)
                 \o extract_coordinates_from_geometry(Tail(members), debug)

US_PREFIX == <<"U", "S", "-">>

\* A derivation that looks at the ref tag before the ISO3166-2 tag.
admin_code_of_ref_first(element) ==
    LET tags == get(element, "tags", <<>>)
        iso_code == tag(tags, "ISO3166-2")
    IN  or_else(tag(tags, "ref"),
                IF startswith(iso_code, US_PREFIX)
                THEN remove_all(iso_code, US_PREFIX)
                ELSE or_else(tag(tags, "ref:USPS"),
                             IF "id" \in DOMAIN element THEN str(element.id) ELSE <<>>))

\* The division code of an element (the country is US).
admin_code_of(element) ==
    LET tags == get(element, "tags", <<>>)
        iso_code == tag(tags, "ISO3166-2")
    IN  IF startswith(iso_code, US_PREFIX)
        THEN remove_all(iso_code, US_PREFIX)
        ELSE or_else(tag(tags, "ref"),
                     or_else(tag(tags, "ref:USPS"),
                             IF "id" \in DOMAIN element THEN str(element.id) ELSE <<>>))

RECURSIVE divisions_loop(_, _, _, _)
divisions_loop(elements, admin_level, debug, divisions) ==
    IF elements = <<>> THEN divisions
    ELSE LET element == Head(elements)
             tags == get(element, "tags", <<>>)
             admin_code == admin_code_of(element)
             name == or_else(tag(tags, "name:en"), or_else(tag(tags, "name"), admin_code))
         IN  divisions_loop(Tail(elements), admin_level, debug,
                 IF admin_code # <<>> /\ name # <<>>
                 THEN dict_set(divisions, admin_code,
                          [name |-> name,
                           osm_id |-> get(element, "id", None),
                           tags |-> tags,
                           coordinates |->
                               extract_coordinates_from_geometry(
                                   get(element, "members", <<>>), debug),
                           admin_level |-> admin_level])
                 ELSE divisions)

\* An allow-list that also lets Canada through.
SUPPORTED_COUNTRIES_with_CA == {"US", "CA"}

\* SUPPORTED_COUNTRIES = ['US']
SUPPORTED_COUNTRIES == {"US"}

\* f"{country_code}_admin_{admin_level}.json"
admin_cache_file(country_code, admin_level) ==
    country_code \o "_admin_" \o ToString(admin_level) \o ".json"

get_admin_divisions(country_code, admin_level, files, t, store, debug, resps) ==
    IF country_code \notin SUPPORTED_COUNTRIES
    THEN Outcome("admin", "none", NoFile, t, FALSE, NoQuery, <<>>, FALSE, TRUE, files)
    ELSE LET file == admin_cache_file(country_code, admin_level)
             entry == files[file]
         IN  IF entry.exists /\ is_fresh(entry.timestamp, t)
             THEN Outcome("admin", file, entry, t, TRUE, NoQuery,
                          json_load_divisions(entry.text), FALSE, FALSE, files)
             ELSE IF country_code # "US"
             THEN Outcome("admin", file, entry, t, FALSE, NoQuery, <<>>, FALSE,
                          TRUE, files)
             ELSE LET q == Queried(resps)
                  IN  IF no_elements(q.data)
                      THEN Outcome("admin", file, entry, t, FALSE, q, <<>>, FALSE,
                                   TRUE, files)
                      ELSE LET divisions ==
                                   divisions_loop(q.data.elements, admin_level,
                                                  debug, <<>>)
                           IN  store_and_return("admin", file, entry, t, q, files,
                                                store, json_dump_divisions(divisions),
                                                divisions)

(***************************************************************************)
(* Inputs of the resolver.                                                 *)
(***************************************************************************)
Chars_US == <<"U", "S">>
Chars_FR == <<"F", "R">>
Name_US == <<"U", "S", "A">>
Name_FR == <<"F", "r", "a", "n", "c", "e">>
Name_TX == <<"T", "e", "x", "a", "s">>
Name_CA == <<"C", "a", "l", "i", "f">>
Iso_TX == <<"U", "S", "-", "T", "X">>
Iso_CA == <<"U", "S", "-", "C", "A">>

CountryUS ==
    [id |-> 148838,
     tags |-> ("ISO3166-1:alpha2" :> Chars_US) @@ ("name:en" :> Name_US)]
CountryFR ==
    [id |-> 2202162,
     tags |-> ("country_code_iso3166_1_alpha_2" :> Chars_FR) @@ ("name" :> Name_FR)]
CountryNoCode ==
    [id |-> 51477, tags |-> ("name" :> Name_FR)]

Way(nodes) == [type |-> "way", ref |-> 1, geometry |-> nodes]
StateTX ==
    [id |-> 114690,
     tags |-> ("ISO3166-2" :> Iso_TX) @@ ("name" :> Name_TX),
     members |-> <<Way(<<[lon |-> -97, lat |-> 32], [lon |-> -96, lat |-> 33]>>),
                   [type |-> "node", ref |-> 2],
                   [type |-> "way", ref |-> 3]>>]
\* A boundary way of 13 nodes.
StateCA ==
    [id |-> 165475,
     tags |-> ("ISO3166-2" :> Iso_CA) @@ ("name:en" :> Name_CA),
     members |-> <<Way([k \in 1..13 |-> [lon |-> -125 + k, lat |-> 32 + k]])>>]
\* No ISO3166-2 tag and no ref: the code falls back to the OSM id.
StateById ==
    [id |-> 42,
     tags |-> ("name" :> Name_FR),
     members |-> <<Way(<<[lon |-> -80, lat |-> 40], [lon |-> -79]>>)>>]

\* No ISO3166-2 tag: the code is the ref tag.
StateByRef ==
    [id |-> 162069,
     tags |-> ("ref" :> <<"D", "C">>) @@ ("name" :> <<"D", "i", "s", "t">>),
     members |-> <<>>]
\* An ISO3166-2 tag that holds the country prefix only, beside a ref tag.
StateNoCode ==
    [id |-> 7,
     tags |-> ("ISO3166-2" :> US_PREFIX) @@ ("ref" :> <<"X", "X">>)
                  @@ ("name" :> Name_FR),
     members |-> <<>>]

CountryBodies ==
    {[elements |-> <<>>],
     [elements |-> <<CountryUS, CountryNoCode, CountryFR>>],
     [remark |-> "runtime error"]}
AdminBodies ==
    {[elements |-> <<>>],
     [elements |-> <<StateTX>>],
     [elements |-> <<StateCA, StateById, StateByRef, StateNoCode>>],
     [remark |-> "runtime error"]}

\* The divisions asked for: states and counties of the supported country,
\* and the states of one that is not supported.
AdminRequests ==
    {[country_code |-> "US", admin_level |-> 4],
     [country_code |-> "US", admin_level |-> 6],
     [country_code |-> "CA", admin_level |-> 4]}

OverpassStreams(bodies) ==
    {[k \in 1..(n + 1) |-> IF k <= n THEN RateLimited ELSE t] :
        n \in 0..MaxOverpass429,
        t \in {Answer(200, b) : b \in bodies \cup {BadJson}} \cup {ServerError, Raised}}

\* Time between two calls: just under, exactly and just over the 24 hours.
WaitSteps == {TTL_SECONDS - 1, TTL_SECONDS, TTL_SECONDS + 1}

\* The outcome of a call together with the arguments it was called with.
Asked(country_code, admin_level, outcome) ==
    [asked |-> [country_code |-> country_code, admin_level |-> admin_level]] @@ outcome

\* What the history keeps of a call: all but the cache and the clock, which
\* are in the state.
Logged(outcome) ==
    [f \in DOMAIN outcome \ {"cache", "clock"} |-> outcome[f]]

(***************************************************************************)
(* main.py: select_geographic_boundaries().                                *)
(***************************************************************************)
UpperCase == <<"A", "B", "C", "D", "E", "F", "G", "H", "I", "J", "K", "L", "M",
               "N", "O", "P", "Q", "R", "S", "T", "U", "V", "W", "X", "Y", "Z">>
LowerCase == <<"a", "b", "c", "d", "e", "f", "g", "h", "i", "j", "k", "l", "m",
               "n", "o", "p", "q", "r", "s", "t", "u", "v", "w", "x", "y", "z">>

\* str.lower()
lower(s) ==
    [k \in 1..Len(s) |->
        IF \E i \in 1..Len(UpperCase) : UpperCase[i] = s[k]
        THEN LowerCase[CHOOSE i \in 1..Len(UpperCase) : UpperCase[i] = s[k]]
        ELSE s[k]]

\* `p in s` on strings
contains(s, p) ==
    \E i \in 0..(Len(s) - Len(p)) : SubSeq(s, i + 1, i + Len(p)) = p

\* The value of a key that is in the dict.
dict_item(d, key) ==
    d[CHOOSE k \in 1..Len(d) : d[k].key = key].value

\* {code: name for code, name in d.items() if code in keys}
RECURSIVE filter_keys(_, _)
filter_keys(d, keys) ==
    IF d = <<>> THEN <<>>
    ELSE (IF Head(d).key \in keys THEN <<Head(d)>> ELSE <<>>)
             \o filter_keys(Tail(d), keys)

\* main.py's SUPPORTED_COUNTRIES = {'US': 'United States'}
MAIN_SUPPORTED_COUNTRIES == {<<"U", "S">>}

\* METRO_AREAS: the states that have metro areas, and the counties of the
\* Dallas-Fort Worth entry.
METRO_STATES == {<<"T", "X">>}
DFW_COUNTIES ==
    <<<<"C", "o", "l", "l", "i", "n">>, <<"D", "a", "l", "l", "a", "s">>,
      <<"D", "e", "n", "t", "o", "n">>, <<"E", "l", "l", "i", "s">>,
      <<"R", "o", "c", "k", "w", "a", "l", "l">>, <<"T", "a", "r", "r", "a", "n", "t">>,
      <<"W", "i", "s", "e">>>>

SUFFIX_COUNTY == <<" ", "C", "o", "u", "n", "t", "y">>
SUFFIX_PARISH == <<" ", "P", "a", "r", "i", "s", "h">>

\* The inner loop of the metro branch: the coordinates of the first division
\* whose name matches the county name, or nothing.
RECURSIVE first_matching_division(_, _)
first_matching_division(county_name, divisions) ==
    IF divisions = <<>> THEN <<>>
    ELSE LET admin_data == Head(divisions).value
             osm_name == remove_all(remove_all(admin_data.name, SUFFIX_COUNTY),
                                    SUFFIX_PARISH)
         IN  IF \/ contains(lower(osm_name), lower(county_name))
                \/ contains(lower(county_name), lower(osm_name))
             THEN admin_data.coordinates
             ELSE first_matching_division(county_name, Tail(divisions))

RECURSIVE metro_boundaries(_, _)
metro_boundaries(metro_counties, divisions) ==
    IF metro_counties = <<>> THEN <<>>
    ELSE first_matching_division(Head(metro_counties), divisions)
             \o metro_boundaries(Tail(metro_counties), divisions)

\* The ALL_COUNTIES branch: the coordinates of every division, in dict order.
RECURSIVE all_boundaries(_)
all_boundaries(divisions) ==
    IF divisions = <<>> THEN <<>>
    ELSE Head(divisions).value.coordinates \o all_boundaries(Tail(divisions))

\* The menu entry the user picks.
Picked(menu, pick) ==
    IF pick = "first" THEN menu[1] ELSE menu[Len(menu)]

\* Step 4: the coordinates of the selected area.
selected_boundaries_of(admin_level_1, selected_state_code, choice) ==
    IF selected_state_code \in METRO_STATES
    THEN IF choice.option = "ENTIRE_STATE"
         THEN dict_item(admin_level_1, selected_state_code).coordinates
         ELSE IF choice.option = "INDIVIDUAL_COUNTIES"
         THEN IF choice.county = "ALL_COUNTIES"
              THEN all_boundaries(admin_level_1)
              ELSE Picked(admin_level_1, choice.county).value.coordinates
         ELSE metro_boundaries(DFW_COUNTIES, admin_level_1)
    ELSE dict_item(admin_level_1, selected_state_code).coordinates

get_state_code_for_wigle(country_code, admin_code) ==
    admin_code

\* cache_boundary_data(country_code, boundary_data): the cache it leaves, or
\* that ensure_cache_directory() raised.
cache_boundary_data(files, t, store, boundary_data) ==
    IF store = "no_dir" THEN [raised |-> TRUE, cache |-> files]
    ELSE IF store = "read_only" THEN [raised |-> FALSE, cache |-> files]
    ELSE [raised |-> FALSE,
          cache |-> [files EXCEPT !["US_boundaries.json"] =
                        CacheEntry(t, json_dump_divisions(boundary_data),
                                   boundary_data)]]

\* What select_geographic_boundaries() did: the tuple it returned (a failed
\* selection is `None, None, None`), whether the user quit, the resolver
\* calls it made, and the cache and the clock it leaves.
Selection(box, state_code, quit, calls, files, t) ==
    [bounding_box |-> box, wigle_state_code |-> state_code, quit |-> quit,
     calls |-> calls, cache |-> files, clock |-> t]

\* The sleeps and the requests of the resolver calls of one selection, in order.
RECURSIVE selection_events(_)
selection_events(calls) ==
    IF calls = <<>> THEN <<>>
    ELSE Head(calls).events \o selection_events(Tail(calls))

select_geographic_boundaries(files, t, store, debug, country_resps, admin_resps, choice) ==
    LET c == Asked("*", 2, get_available_countries(files, t, store, country_resps))
        countries == filter_keys(c.result, MAIN_SUPPORTED_COUNTRIES)
    IN  IF c.raised \/ c.result = <<>> \/ countries = <<>>
        THEN Selection(None, <<>>, FALSE, <<c>>, c.cache, c.clock)
        ELSE
        LET a == Asked("US", 4, get_admin_divisions("US", 4, c.cache, c.clock, store,
                                                     debug, admin_resps))
            admin_level_1 == a.result
        IN  IF a.raised \/ admin_level_1 = <<>>
            THEN Selection(None, <<>>, FALSE, <<c, a>>, a.cache, a.clock)
            ELSE IF choice.quit
            THEN Selection(None, <<>>, TRUE, <<c, a>>, a.cache, a.clock)
            ELSE
            LET selected_state_code == Picked(admin_level_1, choice.state).key
                selected_boundaries ==
                    selected_boundaries_of(admin_level_1, selected_state_code, choice)
                box == calculate_bounding_box(selected_boundaries)
                stored == cache_boundary_data(a.cache, a.clock, store, admin_level_1)
            IN  IF selected_boundaries = <<>> \/ box = None \/ stored.raised
                THEN Selection(None, <<>>, FALSE, <<c, a>>, a.cache, a.clock)
                ELSE Selection(box,
                               get_state_code_for_wigle("US", selected_state_code),
                               FALSE, <<c, a>>, stored.cache, a.clock)

(***************************************************************************)
(* Inputs of the pipeline.                                                 *)
(***************************************************************************)
FlockId == PfxFlockUpper \o TailOctets
OtherId == PfxOther \o TailOctets

\* The records the server may return for a pattern: a Flock device, another
\* device, a row with an empty netid.
RecordsFor(pattern) ==
    {[netid |-> n, ssid |-> SsidOf(pattern)] : n \in {FlockId, OtherId, <<>>}}

BodiesFor(pattern) ==
    {[success |-> TRUE, results |-> r] : r \in SeqsUpTo(RecordsFor(pattern), MaxResults)}
        \cup {[success |-> FALSE]}

\* The last answer of a search: a 200 with a body, a 500, or a network error.
TerminalFor(pattern) ==
    {Answer(200, b) : b \in BodiesFor(pattern)} \cup {ServerError, Raised}

BssidConfigs == {<<>>, <<PfxFlockUpper>>, <<PfxABCUpper, PfxFlockLower>>}
SsidConfigs == {<<>>, <<Pattern1>>, <<Pattern1, Pattern2>>}
Tokens == {"", "dXNlcjp0b2tlbg=="}
ProbeAnswers == {Answer(200, None), Answer(401, None), ServerError, Raised}
\* What Overpass answers the pipeline's two queries with, and what the user
\* answers at the menus.
Name_OK == <<"O", "k", "l", "a">>
Name_NM == <<"N", "e", "w", " ", "M", "e", "x">>
Iso_OK == <<"U", "S", "-", "O", "K">>
Iso_NM == <<"U", "S", "-", "N", "M">>
\* A relation whose only way has one node.
StateOK ==
    [id |-> 161645,
     tags |-> ("ISO3166-2" :> Iso_OK) @@ ("name" :> Name_OK),
     members |-> <<Way(<<[lon |-> -97, lat |-> 35]>>)>>]
\* A relation whose members carry no geometry.
StateNM ==
    [id |-> 162014,
     tags |-> ("ISO3166-2" :> Iso_NM) @@ ("name" :> Name_NM),
     members |-> <<[type |-> "way", ref |-> 7], [type |-> "node", ref |-> 8]>>]

PipeCountryStreams ==
    {<<Answer(200, [elements |-> <<CountryUS, CountryFR>>])>>,
     <<Answer(200, [elements |-> <<CountryFR>>])>>,
     <<ServerError>>}
PipeAdminStreams ==
    {<<Answer(200, [elements |-> <<StateTX, StateNM>>])>>,
     <<RateLimited, Answer(200, [elements |-> <<StateOK>>])>>,
     <<Answer(200, [elements |-> <<>>])>>,
     <<RateLimited, Raised>>}
MenuChoices ==
    {[quit |-> TRUE, state |-> "first", option |-> "ENTIRE_STATE", county |-> "first"]}
        \cup [quit : {FALSE}, state : {"first", "last"},
              option : {"DFW", "ENTIRE_STATE", "INDIVIDUAL_COUNTIES"},
              county : {"first", "last", "ALL_COUNTIES"}]

CallerBox == [west |-> -97, east |-> -96, south |-> 32, north |-> 33]

(***************************************************************************)
(* The pipeline: main() and search_multiple_ssids().                       *)
(***************************************************************************)
NoOsmCall == [op |-> "none"]

OsmIdle ==
    /\ now = 1000000
    /\ cache = [f \in CacheFiles |-> NoFile]
    /\ storage = "ok"
    /\ DEBUG_MODE = FALSE
    /\ osm_call = NoOsmCall
    /\ osm_calls = 0
    /\ waited = FALSE

Init ==
    /\ driver \in {"main", "search_multiple_ssids"}
    /\ pc = IF driver = "main" THEN "config" ELSE "caller"
    /\ bssid_prefixes \in BssidConfigs
    /\ ssid_prefixes \in SsidConfigs
    /\ WIGLE_HEADER = None
    /\ auth_log = <<>>
    /\ bounding_box = IF driver = "main" THEN None ELSE CallerBox
    /\ wigle_state_code = <<>>
    /\ idx = 1
    /\ all_networks = <<>>
    /\ filtered_networks = <<>>
    /\ final_networks = <<>>
    /\ exported = <<>>
    /\ exit_code = "running"
    /\ searched = <<>>
    /\ served = <<>>
    /\ last_call = NoCall
    /\ OsmIdle
    /\ BoxIdle

\* Where the driver goes when the for loop stands before pattern i.
loop_position(i) ==
    IF i <= Len(ssid_prefixes) THEN "search"
    ELSE IF driver = "main" THEN "filter" ELSE "dedup"

\* A check that looks at the BSSID prefixes only.
configuration_missing_bssid_only(bssid_list, ssid_list) ==
    bssid_list = <<>>

\* `if not bssid_prefixes or not ssid_prefixes`
configuration_missing(bssid_list, ssid_list) ==
    bssid_list = <<>> \/ ssid_list = <<>>

\* main(): the configuration check.
LoadConfig ==
    /\ pc = "config"
    /\ IF configuration_missing(bssid_prefixes, ssid_prefixes)
       THEN pc' = "exit" /\ exit_code' = "1"
       ELSE pc' = "auth" /\ exit_code' = exit_code
    /\ UNCHANGED <<driver, bssid_prefixes, ssid_prefixes, WIGLE_HEADER, auth_log,
                   bounding_box, wigle_state_code, idx, all_networks,
                   filtered_networks, final_networks, exported, searched, served,
                   last_call, osmVars, boxVars>>

\* An authentication that takes every answer of the probe for a success.
authenticate_wigle_any_answer(header, token, probe) ==
    IF token = ""
    THEN [header |-> header, ok |-> FALSE, probed |-> FALSE,
          credential_reads |-> 1, probes |-> 0, events |-> <<>>]
    ELSE [header |-> [Authorization |-> "Basic " \o token],
          ok |-> ~probe.raised,
          probed |-> TRUE, credential_reads |-> 1, probes |-> 1,
          events |-> <<Request>>]

\* authenticate_wigle() with the token the environment or the prompt gives and
\* the answer of the probe: the header it leaves and its return value.
authenticate_wigle(header, token, probe) ==
    IF token = ""
    THEN [header |-> header, ok |-> FALSE, probed |-> FALSE,
          credential_reads |-> 1, probes |-> 0, events |-> <<>>]
    ELSE [header |-> [Authorization |-> "Basic " \o token],
          ok |-> ~probe.raised /\ probe.status = 200,
          probed |-> TRUE, credential_reads |-> 1, probes |-> 1,
          events |-> <<Request>>]

\* What the history keeps of an authenticate_wigle() call.
AuthEntry(a, token, probe) ==
    [ok |-> a.ok, probed |-> a.probed, credential_reads |-> a.credential_reads,
     probes |-> a.probes, events |-> a.events, token |-> token, probe |-> probe]

\* main() authenticates once and exits on failure; a caller of the library
\* may authenticate (once here) before it scans.
Authenticate ==
    /\ pc \in {"auth", "caller"}
    /\ auth_log = <<>>
    /\ \E token \in Tokens, probe \in ProbeAnswers :
          LET a == authenticate_wigle(WIGLE_HEADER, token, probe)
          IN  /\ WIGLE_HEADER' = a.header
              /\ auth_log' = Append(auth_log, AuthEntry(a, token, probe))
              /\ IF pc = "caller"
                 THEN pc' = pc /\ exit_code' = exit_code
                 ELSE IF a.ok
                 THEN pc' = "boundaries" /\ exit_code' = exit_code
                 ELSE pc' = "exit" /\ exit_code' = "1"
    /\ UNCHANGED <<driver, bssid_prefixes, ssid_prefixes, bounding_box,
                   wigle_state_code, idx, all_networks, filtered_networks,
                   final_networks, exported, searched, served, last_call, osmVars, boxVars>>

\* main(): select_geographic_boundaries() and the test of its result. The
\* user's answers and the answers of Overpass are the inputs; a user who
\* answers 'q' at a menu ends the process with sys.exit(0).
SelectBoundaries ==
    /\ pc = "boundaries"
    /\ \E country_resps \in PipeCountryStreams, admin_resps \in PipeAdminStreams,
          choice \in MenuChoices :
          \E r \in {select_geographic_boundaries(cache, now, storage, DEBUG_MODE,
                                                country_resps, admin_resps, choice)} :
              /\ cache' = r.cache
              /\ now' = r.clock
              /\ osm_calls' = osm_calls + Len(r.calls)
              /\ osm_call' = [selection_events |-> selection_events(r.calls)]
                                  @@ Logged(r.calls[Len(r.calls)])
              /\ IF r.quit
                 THEN /\ pc' = "exit"
                      /\ exit_code' = "0"
                      /\ UNCHANGED <<bounding_box, wigle_state_code>>
                 ELSE IF r.bounding_box = None
                 THEN /\ pc' = "exit"
                      /\ exit_code' = "1"
                      /\ UNCHANGED <<bounding_box, wigle_state_code>>
                 ELSE /\ pc' = loop_position(idx)
                      /\ exit_code' = exit_code
                      /\ bounding_box' = r.bounding_box
                      /\ wigle_state_code' = r.wigle_state_code
    /\ UNCHANGED <<driver, bssid_prefixes, ssid_prefixes, WIGLE_HEADER, auth_log,
                   idx, all_networks, filtered_networks, final_networks, exported,
                   searched, served, last_call, storage, DEBUG_MODE, waited, boxVars>>

\* A caller calls search_multiple_ssids(ssid_patterns, bounding_box).
StartScan ==
    /\ pc = "caller"
    /\ pc' = loop_position(idx)
    /\ UNCHANGED <<driver, bssid_prefixes, ssid_prefixes, WIGLE_HEADER, auth_log,
                   bounding_box, wigle_state_code, idx, all_networks,
                   filtered_networks, final_networks, exported, exit_code, searched,
                   served, last_call, osmVars, boxVars>>

\* A loop that gives up at the first pattern whose search returned nothing.
next_pattern_index_break_on_empty(i, networks) ==
    IF networks = <<>> THEN Len(ssid_prefixes) + 1 ELSE i + 1

\* The for loop goes on to the next pattern whatever the search returned.
next_pattern_index(i, networks) ==
    i + 1

\* One iteration of the for loop over the patterns (main.py 482-491,
\* wigle_api.py 347-356): one search_by_coordinates call, then extend.
SearchPattern ==
    /\ pc = "search"
    /\ \E resps \in Streams(TerminalFor(ssid_prefixes[idx])) :
          LET pattern == ssid_prefixes[idx]
              state_code == IF driver = "main" THEN wigle_state_code ELSE <<>>
              r == search_by_coordinates(pattern, bounding_box, state_code,
                                         WIGLE_HEADER, resps)
              i == next_pattern_index(idx, r.networks)
          IN  /\ all_networks' = all_networks \o r.networks
              /\ searched' = Append(searched, pattern)
              /\ served' = Append(served, IF r.call.consumed = <<>> THEN None
                                           ELSE resps[Len(resps)])
              /\ last_call' = r.call
              /\ idx' = i
              /\ pc' = loop_position(i)
    /\ UNCHANGED <<driver, bssid_prefixes, ssid_prefixes, WIGLE_HEADER, auth_log,
                   bounding_box, wigle_state_code, filtered_networks, final_networks,
                   exported, exit_code, osmVars, boxVars>>

\* main(): filter the accumulated networks by the known prefixes.
Filter ==
    /\ pc = "filter"
    /\ filtered_networks' = filter_by_bssid_prefixes(all_networks, bssid_prefixes)
    /\ pc' = "export"
    /\ UNCHANGED <<driver, bssid_prefixes, ssid_prefixes, WIGLE_HEADER, auth_log,
                   bounding_box, wigle_state_code, idx, all_networks, final_networks,
                   exported, exit_code, searched, served, last_call, osmVars, boxVars>>

\* main(): the filtered list goes to the export functions and the summary.
Export ==
    /\ pc = "export"
    /\ exported' = filtered_networks
    /\ pc' = "done"
    /\ exit_code' = "0"
    /\ UNCHANGED <<driver, bssid_prefixes, ssid_prefixes, WIGLE_HEADER, auth_log,
                   bounding_box, wigle_state_code, idx, all_networks,
                   filtered_networks, final_networks, searched, served, last_call,
                   osmVars, boxVars>>

\* search_multiple_ssids(): deduplicate and return.
Dedup ==
    /\ pc = "dedup"
    /\ final_networks' = unique_networks(all_networks)
    /\ pc' = "done"
    /\ UNCHANGED <<driver, bssid_prefixes, ssid_prefixes, WIGLE_HEADER, auth_log,
                   bounding_box, wigle_state_code, idx, all_networks,
                   filtered_networks, exported, exit_code, searched, served,
                   last_call, osmVars, boxVars>>

Next ==
    \/ LoadConfig
    \/ Authenticate
    \/ SelectBoundaries
    \/ StartScan
    \/ SearchPattern
    \/ Filter
    \/ Export
    \/ Dedup

Spec == Init /\ [][Next]_vars

(***************************************************************************)
(* SpecFilter: main() from the end of its search loop, with the            *)
(* accumulated list and the prefix list drawn from wider sets.             *)
(***************************************************************************)
FilterNetIds ==
    {PfxABCLower \o TailOctets, PfxABCUpper \o TailOctets, FlockId,
     PfxABCUpper, TooShort, <<>>}
FilterRecords ==
    {[netid |-> n, ssid |-> SsidOf(Pattern1)] : n \in FilterNetIds}
        \cup {[ssid |-> SsidOf(Pattern1)]}
FilterPrefixLists ==
    {<<>>, <<PfxABCUpper>>, <<PfxABCLower>>, <<PfxFlockLower, PfxABCUpper>>,
     <<TooShort>>, <<FlockId>>}

InitFilter ==
    /\ driver = "main"
    /\ pc = "filter"
    /\ bssid_prefixes \in FilterPrefixLists
    /\ ssid_prefixes = <<Pattern1>>
    /\ WIGLE_HEADER = [Authorization |-> "Basic dXNlcjp0b2tlbg=="]
    /\ auth_log = <<AuthEntry(authenticate_wigle(None, "dXNlcjp0b2tlbg==",
                                                 Answer(200, None)),
                              "dXNlcjp0b2tlbg==", Answer(200, None))>>
    /\ bounding_box = CallerBox
    /\ wigle_state_code = <<"T", "X">>
    /\ idx = 2
    /\ all_networks \in SeqsUpTo(FilterRecords, MaxNetworks)
    /\ filtered_networks = <<>>
    /\ final_networks = <<>>
    /\ exported = <<>>
    /\ exit_code = "running"
    /\ searched = <<Pattern1>>
    /\ served = <<Answer(200, [success |-> TRUE, results |-> all_networks])>>
    /\ last_call = NoCall
    /\ OsmIdle
    /\ BoxIdle

NextFilter ==
    \/ Filter
    \/ Export

SpecFilter == InitFilter /\ [][NextFilter]_vars

(***************************************************************************)
(* SpecScript: main() of the single-file script flockfinder.py from its    *)
(* step 2, with the list the search returned drawn from a set.             *)
(***************************************************************************)
\* A Python str whose characters the code does not inspect.
Str(s) == [str |-> s]

\* d[key] = value on a copy of the dict d
set_item(d, key, value) ==
    [k \in DOMAIN d \cup {key} |-> IF k = key THEN value ELSE d[k]]

\* `key in d` and d[key] for a dict kept as a sequence of items.
in_dict(key, d) == \E k \in 1..Len(d) : d[k].key = key

\* The script's constants: one of the BSSIDS and the first two ZIPCODES.
BSSIDS == <<PfxFlockUpper>>
ZIPCODES ==
    <<[key |-> Str("75007"), value |-> [city |-> "Carrollton", county |-> "Dallas"]],
      [key |-> Str("75009"), value |-> [city |-> "Celina", county |-> "Collin"]]>>

\* Step 2: the networks whose first eight characters are one of the BSSIDS.
RECURSIVE bssid_filter(_, _)
bssid_filter(networks, bssids) ==
    IF networks = <<>> THEN <<>>
    ELSE (IF prefix_matches_case_sensitive(get(Head(networks), "netid", <<>>), bssids)
          THEN <<Head(networks)>> ELSE <<>>)
             \o bssid_filter(Tail(networks), bssids)

\* A step 3 that lets the networks without a postal code through.
RECURSIVE zip_filter_keeping_unknown(_, _)
zip_filter_keeping_unknown(networks, zipcodes) ==
    IF networks = <<>> THEN <<>>
    ELSE LET network == Head(networks)
             postal_code == get(network, "postalcode", Str(""))
         IN  (IF in_dict(postal_code, zipcodes)
              THEN <<set_item(network, "zip_info", dict_item(zipcodes, postal_code))>>
              ELSE IF postal_code = Str("") THEN <<network>>
              ELSE <<>>)
                 \o zip_filter_keeping_unknown(Tail(networks), zipcodes)

\* Step 3: the networks whose postalcode is a key of ZIPCODES, each with the
\* entry of its ZIP code under 'zip_info'.
RECURSIVE zip_filter(_, _)
zip_filter(networks, zipcodes) ==
    IF networks = <<>> THEN <<>>
    ELSE LET network == Head(networks)
             postal_code == get(network, "postalcode", Str(""))
         IN  (IF in_dict(postal_code, zipcodes)
              THEN <<set_item(network, "zip_info", dict_item(zipcodes, postal_code))>>
              ELSE <<>>)
                 \o zip_filter(Tail(networks), zipcodes)

\* Step 4: every network that has a BSSID gets its map URL.
WIGLE_SEARCH_URL == "https://wigle.net/search?netid="
add_map_urls(networks) ==
    [k \in 1..Len(networks) |->
        LET bssid == get(networks[k], "netid", <<>>)
        IN  IF bssid # <<>>
            THEN set_item(networks[k], "wigle_map_url", <<WIGLE_SEARCH_URL>> \o bssid)
            ELSE networks[k]]

\* What the search may have returned: a Flock device or another one, with a
\* postal code that is a key of ZIPCODES, one that is not, '', null or none.
PostalCodes == {Str("75007"), Str("75009"), Str("73301"), Str(""), None}
ScriptRecords ==
    {[netid |-> n, postalcode |-> z] : n \in {FlockId, OtherId}, z \in PostalCodes}
        \cup {[netid |-> n] : n \in {FlockId, OtherId}}

InitScript ==
    /\ driver = "flockfinder.py"
    /\ pc = "step2"
    /\ bssid_prefixes = BSSIDS
    /\ ssid_prefixes = <<Pattern1>>
    /\ WIGLE_HEADER = [Authorization |-> "Basic dXNlcjp0b2tlbg=="]
    /\ auth_log = <<>>
    /\ bounding_box = None
    /\ wigle_state_code = <<"T", "X">>
    /\ idx = 2
    /\ all_networks \in SeqsUpTo(ScriptRecords, MaxNetworks)
    /\ filtered_networks = <<>>
    /\ final_networks = <<>>
    /\ exported = <<>>
    /\ exit_code = "running"
    /\ searched = <<Pattern1>>
    /\ served = <<Answer(200, [success |-> TRUE, results |-> all_networks])>>
    /\ last_call = NoCall
    /\ OsmIdle
    /\ BoxIdle

\* Step 2 (bssid_filtered is filtered_networks here).
ScriptFilterBssid ==
    /\ pc = "step2"
    /\ filtered_networks' = bssid_filter(all_networks, BSSIDS)
    /\ pc' = "step3"
    /\ UNCHANGED <<driver, bssid_prefixes, ssid_prefixes, WIGLE_HEADER, auth_log,
                   bounding_box, wigle_state_code, idx, all_networks, final_networks,
                   exported, exit_code, searched, served, last_call, osmVars, boxVars>>

\* Step 3 (final_filtered is final_networks here). The lists share their
\* records, but the script reads only the lengths of the earlier lists after
\* this step, so the earlier lists are kept as they were.
ScriptFilterZip ==
    /\ pc = "step3"
    /\ final_networks' = zip_filter(filtered_networks, ZIPCODES)
    /\ pc' = "step4"
    /\ UNCHANGED <<driver, bssid_prefixes, ssid_prefixes, WIGLE_HEADER, auth_log,
                   bounding_box, wigle_state_code, idx, all_networks,
                   filtered_networks, exported, exit_code, searched, served,
                   last_call, osmVars, boxVars>>

\* Steps 4 to 7: the URLs are added and the list is written out.
ScriptExport ==
    /\ pc = "step4"
    /\ exported' = add_map_urls(final_networks)
    /\ pc' = "done"
    /\ exit_code' = "0"
    /\ UNCHANGED <<driver, bssid_prefixes, ssid_prefixes, WIGLE_HEADER, auth_log,
                   bounding_box, wigle_state_code, idx, all_networks,
                   filtered_networks, final_networks, searched, served, last_call,
                   osmVars, boxVars>>

NextScript ==
    \/ ScriptFilterBssid
    \/ ScriptFilterZip
    \/ ScriptExport

SpecScript == InitScript /\ [][NextScript]_vars

(***************************************************************************)
(* SpecClean: clean_network_data() applied to a drawn list.                *)
(***************************************************************************)
\* A JSON number, and a string that float() does not accept.
Num(x) == [num |-> x]
NotANumber == Str("n/a")

\* bool(v) for the values a record holds.
truthy(v) == v # None /\ v # Num(0) /\ v # Str("") /\ v # <<>>

\* `a or b`
py_or(a, b) == IF truthy(a) THEN a ELSE b

\* float(v): the number, or that ValueError was raised.
to_float(v) ==
    IF "num" \in DOMAIN v THEN [raised |-> FALSE, value |-> v.num]
    ELSE [raised |-> TRUE, value |-> 0]

MIN_LAT == -90
MIN_LON == -180

validate_coordinates(network) ==
    LET lat == py_or(get(network, "trilat", None), get(network, "latitude", None))
        lon == py_or(get(network, "trilong", None), get(network, "longitude", None))
    IN  IF lat = None \/ lon = None THEN FALSE
        ELSE LET lat_float == to_float(lat)
                 lon_float == to_float(lon)
             IN  IF lat_float.raised \/ lon_float.raised THEN FALSE
                 ELSE /\ MIN_LAT <= lat_float.value /\ lat_float.value <= MAX_LAT
                      /\ MIN_LON <= lon_float.value /\ lon_float.value <= MAX_LON

\* {key: value for key, value in network.items() if value is not None and value != ''}
cleaned_copy(network) ==
    [key \in {f \in DOMAIN network :
                 network[f] # None /\ network[f] # Str("") /\ network[f] # <<>>}
        |-> network[key]]

RECURSIVE clean_network_data(_)
clean_network_data(networks) ==
    IF networks = <<>> THEN <<>>
    ELSE LET network == Head(networks)
         IN  (IF ~validate_coordinates(network) THEN <<>>
              ELSE IF ~truthy(get(network, "netid", None)) THEN <<>>
              ELSE <<cleaned_copy(network)>>)
                 \o clean_network_data(Tail(networks))

\* Records as the search returns them: inside, on and outside the bounds, on
\* the equator, without coordinates, without a BSSID, with an empty field.
At(lat, lon) == [netid |-> FlockId, trilat |-> lat, trilong |-> lon]
CleanRecords ==
    {At(Num(33), Num(-97)), At(Num(90), Num(-180)), At(Num(-90), Num(180)),
     At(Num(91), Num(-97)), At(Num(33), Num(181)), At(Num(-91), Num(-181)),
     At(Num(0), Num(-97)), At(Num(33), Num(0)),
     At(None, Num(-97)), At(NotANumber, Num(-97)),
     [netid |-> FlockId, trilong |-> Num(-97)],
     [netid |-> FlockId, latitude |-> Num(33), longitude |-> Num(-97)],
     [netid |-> FlockId, trilat |-> Num(0), latitude |-> Num(0), trilong |-> Num(-97)],
     [netid |-> <<>>, trilat |-> Num(33), trilong |-> Num(-97)],
     [trilat |-> Num(33), trilong |-> Num(-97)],
     [netid |-> OtherId, ssid |-> Str(""), trilat |-> Num(33), trilong |-> Num(-97)]}

InitClean ==
    /\ driver = "clean_network_data"
    /\ pc = "call"
    /\ bssid_prefixes = <<>>
    /\ ssid_prefixes = <<>>
    /\ WIGLE_HEADER = None
    /\ auth_log = <<>>
    /\ bounding_box = None
    /\ wigle_state_code = <<>>
    /\ idx = 1
    /\ all_networks \in SeqsUpTo(CleanRecords, MaxClean)
    /\ filtered_networks = <<>>
    /\ final_networks = <<>>
    /\ exported = <<>>
    /\ exit_code = "running"
    /\ searched = <<>>
    /\ served = <<>>
    /\ last_call = NoCall
    /\ OsmIdle
    /\ BoxIdle

\* clean_network_data(all_networks) returns final_networks.
CleanNetworkData ==
    /\ pc = "call"
    /\ driver = "clean_network_data"
    /\ final_networks' = clean_network_data(all_networks)
    /\ pc' = "returned"
    /\ UNCHANGED <<driver, bssid_prefixes, ssid_prefixes, WIGLE_HEADER, auth_log,
                   bounding_box, wigle_state_code, idx, all_networks,
                   filtered_networks, exported, exit_code, searched, served,
                   last_call, osmVars, boxVars>>

NextClean ==
    \/ CleanNetworkData

SpecClean == InitClean /\ [][NextClean]_vars

(***************************************************************************)
(* SpecCompose: a caller of the library applies the deduplication of       *)
(* search_multiple_ssids() and filter_by_bssid_prefixes() to an            *)
(* accumulated list, in both orders.                                       *)
(***************************************************************************)
ComposeRecords ==
    {[netid |-> FlockId, ssid |-> SsidOf(Pattern1)],
     [netid |-> FlockId, ssid |-> SsidOf(Pattern2)],
     [netid |-> OtherId, ssid |-> SsidOf(Pattern1)],
     [netid |-> PfxABCLower \o TailOctets, ssid |-> SsidOf(Pattern2)],
     [netid |-> TooShort, ssid |-> SsidOf(Pattern1)],
     [netid |-> <<>>, ssid |-> SsidOf(Pattern1)],
     [ssid |-> SsidOf(Pattern2)]}
ComposePrefixLists ==
    {<<>>, <<PfxFlockLower>>, <<PfxABCUpper>>, <<PfxABCUpper, PfxFlockUpper>>}

InitCompose ==
    /\ driver = "caller"
    /\ pc = "accumulated"
    /\ bssid_prefixes \in ComposePrefixLists
    /\ ssid_prefixes = <<Pattern1, Pattern2>>
    /\ WIGLE_HEADER = [Authorization |-> "Basic dXNlcjp0b2tlbg=="]
    /\ auth_log = <<>>
    /\ bounding_box = CallerBox
    /\ wigle_state_code = <<>>
    /\ idx = 3
    /\ all_networks \in SeqsUpTo(ComposeRecords, MaxNetworks)
    /\ filtered_networks = <<>>
    /\ final_networks = <<>>
    /\ exported = <<>>
    /\ exit_code = "running"
    /\ searched = <<Pattern1, Pattern2>>
    /\ served = <<>>
    /\ last_call = NoCall
    /\ OsmIdle
    /\ BoxIdle

\* The deduplication (wigle_api.py 361-372), then the filter on its result.
DedupThenFilter ==
    /\ pc = "accumulated"
    /\ final_networks' = filter_by_bssid_prefixes(unique_networks(all_networks),
                                                  bssid_prefixes)
    /\ pc' = "one_order"
    /\ UNCHANGED <<driver, bssid_prefixes, ssid_prefixes, WIGLE_HEADER, auth_log,
                   bounding_box, wigle_state_code, idx, all_networks,
                   filtered_networks, exported, exit_code, searched, served,
                   last_call, osmVars, boxVars>>

\* The filter, then the deduplication on its result.
FilterThenDedup ==
    /\ pc = "one_order"
    /\ filtered_networks' = unique_networks(
                                filter_by_bssid_prefixes(all_networks, bssid_prefixes))
    /\ pc' = "both_orders"
    /\ UNCHANGED <<driver, bssid_prefixes, ssid_prefixes, WIGLE_HEADER, auth_log,
                   bounding_box, wigle_state_code, idx, all_networks, final_networks,
                   exported, exit_code, searched, served, last_call, osmVars,
                   boxVars>>

NextCompose ==
    \/ DedupThenFilter
    \/ FilterThenDedup

SpecCompose == InitCompose /\ [][NextCompose]_vars

(***************************************************************************)
(* SpecOSM: resolver calls, and time passing between them.                 *)
(***************************************************************************)
PipeIdle ==
    /\ driver = "main"
    /\ pc = "idle"
    /\ bssid_prefixes = <<>>
    /\ ssid_prefixes = <<>>
    /\ WIGLE_HEADER = None
    /\ auth_log = <<>>
    /\ bounding_box = None
    /\ wigle_state_code = <<>>
    /\ idx = 1
    /\ all_networks = <<>>
    /\ filtered_networks = <<>>
    /\ final_networks = <<>>
    /\ exported = <<>>
    /\ exit_code = "running"
    /\ searched = <<>>
    /\ served = <<>>
    /\ last_call = NoCall

InitOSM ==
    /\ PipeIdle
    /\ BoxIdle
    /\ now = 1000000
    /\ cache = [f \in CacheFiles |-> NoFile]
    /\ storage \in {"ok", "no_dir", "read_only"}
    /\ DEBUG_MODE \in BOOLEAN
    /\ osm_call = NoOsmCall
    /\ osm_calls = 0
    /\ waited = FALSE

\* The state a finished call leaves.
Finish(outcome) ==
    /\ osm_call' = Logged(outcome)
    /\ cache' = outcome.cache
    /\ now' = outcome.clock
    /\ osm_calls' = osm_calls + 1
    /\ waited' = FALSE
    /\ UNCHANGED <<storage, DEBUG_MODE, pipeVars, boxVars>>

ListCountries ==
    /\ osm_calls < MaxCalls
    /\ \E resps \in OverpassStreams(CountryBodies) :
          Finish(Asked("*", 2, get_available_countries(cache, now, storage, resps)))

ListAdminDivisions ==
    /\ osm_calls < MaxCalls
    /\ \E request \in AdminRequests, resps \in OverpassStreams(AdminBodies) :
          Finish(Asked(request.country_code, request.admin_level,
                       get_admin_divisions(request.country_code, request.admin_level,
                                           cache, now, storage, DEBUG_MODE, resps)))

\* Time passes between two calls; it shows only in the age of a cache file.
Wait ==
    /\ ~waited
    /\ \E f \in CacheFiles : cache[f].exists
    /\ osm_calls < MaxCalls
    /\ \E d \in WaitSteps : now' = now + d
    /\ waited' = TRUE
    /\ UNCHANGED <<cache, storage, DEBUG_MODE, osm_call, osm_calls, pipeVars, boxVars>>

NextOSM ==
    \/ ListCountries
    \/ ListAdminDivisions
    \/ Wait

SpecOSM == InitOSM /\ [][NextOSM]_vars

(***************************************************************************)
(* SpecBox: calculate_bounding_box and validate_bounding_box on their own. *)
(***************************************************************************)
\* Vertices around Dallas, as tuples.
BoxVertices ==
    {Coord("tuple", lon, lat) : lon \in {-98, -97, -96}, lat \in {32, 33}}

\* Bounds at, next to and beyond the limits of latitude and longitude.
LatValues == {-91, -90, 32, 33, 90, 91}
LonValues == {-181, -180, -97, -96, 180, 181}

FullBoxes ==
    [north : LatValues, south : LatValues, east : LonValues, west : LonValues]

\* Boxes with a key missing.
PartialBoxes ==
    {[north |-> 33, south |-> 32, east |-> -96],
     [north |-> 33, south |-> 32, west |-> -97],
     [south |-> 32, east |-> -96, west |-> -97],
     [north |-> 33, east |-> -96, west |-> -97],
     [north |-> 32, south |-> 33],
     [minlat |-> 32, maxlat |-> 33, minlon |-> -97, maxlon |-> -96]}

InitBox ==
    /\ PipeIdle
    /\ OsmIdle
    /\ box_call = NoBoxCall
    /\ \/ /\ box_pc = "calculate"
          /\ coords_arg \in SeqsUpTo(BoxVertices, MaxCoords)
          /\ bbox_arg = None
       \/ /\ box_pc = "validate"
          /\ coords_arg = <<>>
          /\ bbox_arg \in FullBoxes \cup PartialBoxes

CalculateBox ==
    /\ box_pc = "calculate"
    /\ box_call' = Return("calculate_bounding_box", calculate_bounding_box(coords_arg))
    /\ box_pc' = "done"
    /\ UNCHANGED <<coords_arg, bbox_arg, pipeVars, osmVars>>

ValidateBox ==
    /\ box_pc = "validate"
    /\ box_call' = Return("validate_bounding_box", validate_bounding_box(bbox_arg))
    /\ box_pc' = "done"
    /\ UNCHANGED <<coords_arg, bbox_arg, pipeVars, osmVars>>

NextBox ==
    \/ CalculateBox
    \/ ValidateBox

SpecBox == InitBox /\ [][NextBox]_vars

(***************************************************************************)
(* Vocabulary of the properties, defined apart from the code's operators.  *)
(***************************************************************************)
CasePairs ==
    {{"a", "A"}, {"b", "B"}, {"c", "C"}, {"d", "D"}, {"e", "E"}, {"f", "F"}}

SameIgnoringCase(a, b) ==
    /\ Len(a) = Len(b)
    /\ \A k \in 1..Len(a) : a[k] = b[k] \/ {a[k], b[k]} \in CasePairs

\* The record has a bssid of at least 8 characters whose first 8 characters
\* equal, case aside, an entry of the prefix list.
HasKnownPrefix(network, prefixes) ==
    /\ "netid" \in DOMAIN network
    /\ Len(network.netid) >= 8
    /\ \E k \in 1..Len(prefixes) :
           SameIgnoringCase(SubSeq(network.netid, 1, 8), prefixes[k])

Occurs(x, s) ==
    \E k \in 1..Len(s) : s[k] = x

Indices(s, P(_)) ==
    {k \in 1..Len(s) : P(s[k])}

RECURSIVE IsSubsequence(_, _)
IsSubsequence(s, t) ==
    IF s = <<>> THEN TRUE
    ELSE IF t = <<>> THEN FALSE
    ELSE IF Head(s) = Head(t) THEN IsSubsequence(Tail(s), Tail(t))
    ELSE IsSubsequence(s, Tail(t))

\* The bssids of a list of records (rows without one, or with an empty one,
\* carry none).
BssidsOf(s) ==
    {s[k].netid : k \in {j \in 1..Len(s) : "netid" \in DOMAIN s[j] /\ s[j].netid # <<>>}}

\* The answer is a successful search answer.
Succeeded(answer) ==
    /\ answer # None
    /\ ~answer.raised
    /\ answer.status = 200
    /\ "success" \in DOMAIN answer.body
    /\ answer.body.success

ResultsOf(answer) ==
    IF Succeeded(answer) THEN answer.body.results ELSE <<>>

RECURSIVE Concat(_)
Concat(lists) ==
    IF lists = <<>> THEN <<>> ELSE Head(lists) \o Concat(Tail(lists))

\* Everything the searches of this run returned, in search order.
Returned ==
    Concat([k \in 1..Len(served) |-> ResultsOf(served[k])])

ScanOver == pc \in {"filter", "dedup", "export", "done"}

(***************************************************************************)
(* C1 -- the pipeline invariant.                                           *)
(***************************************************************************)
\* C1: when main() has handed its list to the export layer, that list holds
\* exactly the returned networks with a known BSSID prefix (the region test
\* of this pipeline is the server-side box and state filter), and at most one
\* entry per BSSID.
C1_FinalCandidatesExactAndUnique ==
    (driver = "main" /\ pc = "done") =>
        /\ BssidsOf(exported) =
               {Returned[k].netid :
                   k \in {j \in 1..Len(Returned) : HasKnownPrefix(Returned[j], bssid_prefixes)}}
        /\ \A j, k \in 1..Len(exported) :
               j # k => exported[j].netid # exported[k].netid

(***************************************************************************)
(* C2 -- deduplication in search_multiple_ssids.                           *)
(***************************************************************************)
FirstIndexOf(b, s) ==
    Min({k \in 1..Len(s) : s[k].netid = b})

\* The first pattern, in search order, whose answer held bssid b.
FirstPatternWith(b) ==
    searched[Min({k \in 1..Len(served) : b \in BssidsOf(ResultsOf(served[k]))})]

\* C2: search_multiple_ssids returns exactly one record for every BSSID of the
\* accumulated results, that record is the BSSID's first occurrence (so it
\* carries the ssid of the pattern searched first), and the output holds
\* nothing else.
C2_DedupKeepsFirstOccurrence ==
    (driver = "search_multiple_ssids" /\ pc = "done") =>
        /\ \A b \in BssidsOf(all_networks) :
               /\ Cardinality({k \in 1..Len(final_networks) :
                                   final_networks[k].netid = b}) = 1
               /\ Occurs(all_networks[FirstIndexOf(b, all_networks)], final_networks)
               /\ \A k \in 1..Len(final_networks) :
                      final_networks[k].netid = b =>
                          final_networks[k].ssid = SsidOf(FirstPatternWith(b))
        /\ BssidsOf(final_networks) = BssidsOf(all_networks)
        /\ Len(final_networks) = Cardinality(BssidsOf(all_networks))

\* Two patterns both returned the Flock device, under different ssids, and
\* the scan has returned.
C2_Witness ==
    /\ driver = "search_multiple_ssids"
    /\ pc = "done"
    /\ Len(served) = 2
    /\ FlockId \in BssidsOf(ResultsOf(served[1]))
    /\ FlockId \in BssidsOf(ResultsOf(served[2]))
    /\ Cardinality({all_networks[k].ssid : k \in 1..Len(all_networks)}) = 2
    /\ Len(final_networks) < Len(all_networks)

(***************************************************************************)
(* C3, C4 -- filter_by_bssid_prefixes.                                     *)
(***************************************************************************)
Filtered == pc \in {"export", "done"}

\* C3: a record is kept iff its bssid has at least 8 characters and its first
\* 8 characters equal, case aside, an entry of the prefix list; every kept
\* record stays as often as it came.
C3_KeptIffKnownPrefix ==
    Filtered =>
        /\ \A k \in 1..Len(all_networks) :
               Occurs(all_networks[k], filtered_networks)
                   <=> HasKnownPrefix(all_networks[k], bssid_prefixes)
        /\ Len(filtered_networks) =
               Cardinality({k \in 1..Len(all_networks) :
                               HasKnownPrefix(all_networks[k], bssid_prefixes)})

\* Prefix "AA:BB:CC" kept the record "aa:bb:cc:11:22:33", and a record of 7
\* characters was dropped though the list holds its very characters' prefix.
C3_Witness ==
    /\ Filtered
    /\ Occurs(PfxABCUpper, bssid_prefixes)
    /\ \E k \in 1..Len(filtered_networks) :
           filtered_networks[k].netid = PfxABCLower \o TailOctets
    /\ \E k \in 1..Len(all_networks) :
           /\ "netid" \in DOMAIN all_networks[k]
           /\ all_networks[k].netid = TooShort
    /\ Len(filtered_networks) < Len(all_networks)

\* C4: the filter's output is a subsequence of its input.
C4_StableFilter ==
    Filtered => IsSubsequence(filtered_networks, all_networks)

\* Two different records survived around one that was dropped.
C4_Witness ==
    /\ Filtered
    /\ Len(all_networks) = 3
    /\ Len(filtered_networks) = 2
    /\ filtered_networks[1] # filtered_networks[2]
    /\ filtered_networks[1] = all_networks[1]
    /\ filtered_networks[2] = all_networks[3]

(***************************************************************************)
(* C5, C6 -- the HTTP 429 retry of make_wigle_request.                     *)
(***************************************************************************)
RequestsOf(call) ==
    Cardinality({k \in 1..Len(call.events) : call.events[k] = Request})

\* C5: a call issues at most two HTTP requests, and a call whose first two
\* answers are both 429 returns no data.
C5_AtMostOneRetry ==
    last_call.made =>
        /\ RequestsOf(last_call) <= 2
        /\ (/\ Len(last_call.offered) >= 2
            /\ last_call.offered[1] = RateLimited
            /\ last_call.offered[2] = RateLimited) => last_call.data = None

\* C6: a call answered 429 and then 200 returns the body of the 200 answer,
\* and between its two requests lies exactly one 60-second sleep (followed by
\* the rate-limit delay of the second request).
C6_RetryAfter429ReturnsPayload ==
    (/\ last_call.made
     /\ Len(last_call.offered) = 2
     /\ last_call.offered[1] = RateLimited
     /\ last_call.offered[2].status = 200) =>
        /\ last_call.data = last_call.offered[2].body
        /\ last_call.events =
               <<Sleep(1), Request, Sleep(60), Sleep(1), Request>>

\* Such a call happened and brought records back.
C6_Witness ==
    /\ last_call.made
    /\ Len(last_call.offered) = 2
    /\ last_call.offered[1] = RateLimited
    /\ Succeeded(last_call.offered[2])
    /\ last_call.offered[2].body.results # <<>>
    /\ all_networks # <<>>

(***************************************************************************)
(* C7 -- a failed search does not stop the scan.                           *)
(***************************************************************************)
\* C7: when the loop is over every pattern of the list has been searched
\* exactly once, in list order, and the accumulated result is the results
\* of the searches that succeeded, in order: a failed search added nothing
\* and stopped nothing.
C7_FailedSearchDoesNotStopScan ==
    ScanOver =>
        /\ searched = ssid_prefixes
        /\ Len(served) = Len(ssid_prefixes)
        /\ all_networks = Returned

\* The first search failed with HTTP 500, the second brought records.
C7_Witness ==
    /\ ScanOver
    /\ Len(served) = 2
    /\ served[1] = ServerError
    /\ Succeeded(served[2])
    /\ all_networks # <<>>

(***************************************************************************)
(* Claims about the resolver and its cache (SpecOSM).                      *)
(***************************************************************************)
Called == osm_call.op # "none"

\* The answer that ended the call's query (every answer before it is a 429).
Terminal(call) == call.offered[Len(call.offered)]

FailedAnswer(r) ==
    \/ r.raised
    \/ r.status # 200
    \/ r.body = BadJson
    \/ "elements" \notin DOMAIN r.body

ZeroElements(r) ==
    /\ ~r.raised
    /\ r.status = 200
    /\ "elements" \in DOMAIN r.body
    /\ r.body.elements = <<>>

\* C8: a list operation never raises; when its query ends in a non-200
\* status, a transport error, unparsable JSON or a body without elements it
\* returns an empty mapping; when the query ends in a 200 answer with zero
\* elements it returns an empty mapping and reports no error.
C8_ListOperationsNeverRaise ==
    Called =>
        /\ ~osm_call.raised
        /\ (osm_call.queried /\ FailedAnswer(Terminal(osm_call)))
               => osm_call.result = <<>>
        /\ (osm_call.queried /\ ZeroElements(Terminal(osm_call)))
               => (osm_call.result = <<>> /\ ~osm_call.reported_error)

ReadCache == Called /\ osm_call.file \in CacheFiles

Age(call) == call.read_at - call.found_timestamp

\* C9 as stated: a read misses exactly when there is no entry or the entry
\* is more than 86400 seconds old, so an entry of age at most 86400 is a hit.
C9_HitUpToAndIncludingTTL ==
    ReadCache =>
        (osm_call.hit <=> (osm_call.found /\ Age(osm_call) <= 86400))

\* C9: a read misses exactly when there is no entry or the entry's
\* timestamp is at least 86400 seconds before the current time; a younger
\* entry is a hit, answered from the file without a query; and a read of a
\* stale entry leaves the file in place.
C9_HitStrictlyWithinTTL ==
    ReadCache =>
        /\ osm_call.hit <=> (osm_call.found /\ Age(osm_call) < 86400)
        /\ osm_call.hit => (~osm_call.queried /\ ~osm_call.raised)
        /\ ~osm_call.hit => osm_call.queried
        /\ osm_call.found => cache[osm_call.file].exists

\* An entry read exactly 24 hours after it was stored: a miss, file in place.
C9_Witness ==
    /\ ReadCache
    /\ osm_call.found
    /\ Age(osm_call) = 86400
    /\ ~osm_call.hit
    /\ osm_call.queried
    /\ cache[osm_call.file].exists

\* C10: a read that immediately follows the store of a payload returns the
\* payload that was stored, so the second call returns the first's mapping.
C10_CacheRoundTripUnchanged ==
    (ReadCache /\ osm_call.hit /\ Age(osm_call) = 0)
        => osm_call.result = cache[osm_call.file].dumped

\* A stored or returned mapping as the JSON value it stands for: whether a
\* coordinate pair is a tuple, an array or a list is left out.
JsonOfCoordinates(coordinates) ==
    [k \in 1..Len(coordinates) |-> <<coordinates[k].lon, coordinates[k].lat>>]

JsonOf(op, mapping) ==
    IF op = "countries" THEN mapping
    ELSE [k \in 1..Len(mapping) |->
             [key |-> mapping[k].key,
              name |-> mapping[k].value.name,
              osm_id |-> mapping[k].value.osm_id,
              tags |-> mapping[k].value.tags,
              admin_level |-> mapping[k].value.admin_level,
              coordinates |-> JsonOfCoordinates(mapping[k].value.coordinates)]]

FoundYoung(call) == call.found /\ Age(call) < 86400

\* C11: a call that finds an entry younger than 24 hours returns that entry
\* and sends no HTTP request; a call sends an Overpass request only when its
\* read of the cache found no such entry.
C11_CacheReadBeforeQuery ==
    ReadCache =>
        /\ FoundYoung(osm_call) =>
               /\ RequestsOf(osm_call) = 0
               /\ osm_call.events = <<>>
               /\ JsonOf(osm_call.op, osm_call.result)
                      = JsonOf(osm_call.op, cache[osm_call.file].text)
        /\ RequestsOf(osm_call) > 0 => ~FoundYoung(osm_call)

\* A second call, some time after the first, answered from a non-empty entry.
C11_Witness ==
    /\ ReadCache
    /\ FoundYoung(osm_call)
    /\ Age(osm_call) > 0
    /\ osm_call.result # <<>>
    /\ RequestsOf(osm_call) = 0

Unsupported(call) ==
    call.op = "admin" /\ call.asked.country_code # "US"

\* C12: get_admin_divisions for a country that is not supported returns an
\* empty mapping, reads no cache file, sends no request, and leaves every
\* cache file as it was.
C12_UnsupportedCountry ==
    /\ [](Called /\ Unsupported(osm_call) =>
              /\ osm_call.result = <<>>
              /\ ~osm_call.raised
              /\ osm_call.file \notin CacheFiles
              /\ ~osm_call.found
              /\ osm_call.events = <<>>)
    /\ [][(osm_calls' = osm_calls + 1 /\ Unsupported(osm_call'))
              => (cache' = cache /\ now' = now)]_vars

\* An unsupported country asked for while the cache holds files.
C12_Witness ==
    /\ Called
    /\ Unsupported(osm_call)
    /\ osm_call.reported_error
    /\ \E f \in CacheFiles : cache[f].exists

(***************************************************************************)
(* Claims about the bounding box functions (SpecBox).                      *)
(***************************************************************************)
Calculated == box_call.fn = "calculate_bounding_box"
Validated == box_call.fn = "validate_bounding_box"

Positions(seq) == 1..Len(seq)

\* C13: for a non-empty coordinate list the returned box contains every
\* input coordinate, and each of its four bounds is the latitude or the
\* longitude of some input coordinate.
C13_BoxContainsInputs ==
    (Calculated /\ coords_arg # <<>>) =>
        LET B == box_call.value
        IN  /\ ~box_call.raised
            /\ DOMAIN B = {"north", "south", "east", "west"}
            /\ \A k \in Positions(coords_arg) :
                   /\ B.south <= coords_arg[k].lat /\ coords_arg[k].lat <= B.north
                   /\ B.west <= coords_arg[k].lon /\ coords_arg[k].lon <= B.east
            /\ \E k \in Positions(coords_arg) : coords_arg[k].lat = B.south
            /\ \E k \in Positions(coords_arg) : coords_arg[k].lat = B.north
            /\ \E k \in Positions(coords_arg) : coords_arg[k].lon = B.west
            /\ \E k \in Positions(coords_arg) : coords_arg[k].lon = B.east

\* The box of the two vertices (-97, 32) and (-96, 33).
C13_Witness ==
    /\ Calculated
    /\ Len(coords_arg) = 2
    /\ coords_arg[1].lon = -97 /\ coords_arg[1].lat = 32
    /\ coords_arg[2].lon = -96 /\ coords_arg[2].lat = 33
    /\ box_call.value = [west |-> -97, east |-> -96, south |-> 32, north |-> 33]

\* C14 as stated: a call with zero coordinates fails with an error and
\* returns no value.
C14_EmptyInputFails ==
    (Calculated /\ coords_arg = <<>>) => box_call.raised

\* C14: a call with zero coordinates raises nothing and returns None, which
\* is no box.
C14_EmptyInputReturnsNone ==
    (Calculated /\ coords_arg = <<>>) =>
        /\ ~box_call.raised
        /\ box_call.value = None
        /\ ~({"north", "south", "east", "west"} \subseteq DOMAIN box_call.value)

C14_Witness ==
    /\ Calculated
    /\ coords_arg = <<>>
    /\ box_pc = "done"

ElementsOf(seq) == {seq[k] : k \in Positions(seq)}

\* C15: every coordinate list with the same elements as the one passed (a
\* permutation of it, with duplicates added or removed) gives the same box.
C15_BoxOrderIndependent ==
    Calculated =>
        \A other \in SeqsUpTo(BoxVertices, MaxCoords) :
            ElementsOf(other) = ElementsOf(coords_arg)
                => calculate_bounding_box(other) = box_call.value

\* Three vertices, one of them twice, whose first is not the westernmost.
C15_Witness ==
    /\ Calculated
    /\ Len(coords_arg) = 3
    /\ Cardinality(ElementsOf(coords_arg)) = 2
    /\ \E k \in Positions(coords_arg) : coords_arg[k].lon < coords_arg[1].lon

HasAllKeys(b) == {"north", "south", "east", "west"} \subseteq DOMAIN b

InRange(b) ==
    /\ -90 <= b.south /\ b.south <= 90
    /\ -90 <= b.north /\ b.north <= 90
    /\ -180 <= b.west /\ b.west <= 180
    /\ -180 <= b.east /\ b.east <= 180

C17_SearchedBoxIsValid ==
    (driver = "main" /\ last_call.made) =>
        LET p == last_call.params
        IN  /\ p.latrange2 > p.latrange1
            /\ p.longrange2 > p.longrange1
            /\ -90 <= p.latrange1 /\ p.latrange2 <= 90
            /\ -180 <= p.longrange1 /\ p.longrange2 <= 180

\* C18: authenticate returns false for a missing or empty credential, for a
\* probe answered 401, for a probe answered any other status than 200 and
\* for a network error; it returns true only for a probe answered 200; it
\* reads the credential once and sends at most one probe.
C18_AuthenticateOutcomes ==
    \A k \in 1..Len(auth_log) :
        LET a == auth_log[k]
        IN  /\ a.token = "" => (~a.ok /\ a.probes = 0)
            /\ (a.probed /\ a.probe.raised) => ~a.ok
            /\ (a.probed /\ ~a.probe.raised /\ a.probe.status = 401) => ~a.ok
            /\ (a.probed /\ ~a.probe.raised /\ a.probe.status # 200) => ~a.ok
            /\ a.ok => (a.probed /\ ~a.probe.raised /\ a.probe.status = 200)
            /\ a.probes <= 1
            /\ a.credential_reads <= 1

\* A credential was given and the probe was answered 401.
C18_Witness ==
    /\ Len(auth_log) = 1
    /\ auth_log[1].token # ""
    /\ auth_log[1].probed
    /\ ~auth_log[1].probe.raised
    /\ auth_log[1].probe.status = 401
    /\ ~auth_log[1].ok

ConfigFailed == bssid_prefixes = <<>> \/ ssid_prefixes = <<>>
AuthFailed == auth_log # <<>> /\ ~auth_log[Len(auth_log)].ok
NoRemoteBoundaryOrSearch ==
    /\ osm_calls = 0
    /\ osm_call = NoOsmCall
    /\ searched = <<>>
    /\ ~last_call.made

\* C19: with an empty BSSID or SSID prefix list main() exits with status 1
\* before any network call (no authentication probe, no Overpass query, no
\* WiGLE search); when authentication fails it exits with status 1 before
\* any Overpass query or WiGLE search.
C19_AbortBeforeGuardedWork ==
    driver = "main" =>
        /\ ConfigFailed =>
               /\ pc \in {"config", "exit"}
               /\ pc = "exit" => exit_code = "1"
               /\ auth_log = <<>>
               /\ NoRemoteBoundaryOrSearch
        /\ AuthFailed =>
               /\ pc = "exit"
               /\ exit_code = "1"
               /\ NoRemoteBoundaryOrSearch

\* The run has exited on an empty SSID prefix list.
C19_Witness ==
    /\ driver = "main"
    /\ bssid_prefixes # <<>>
    /\ ssid_prefixes = <<>>
    /\ pc = "exit"
    /\ exit_code = "1"

\* C20: main() exits with a non-zero status only after a configuration
\* failure or an authentication failure.
C20_OnlyConfigAndAuthExitNonZero ==
    (driver = "main" /\ exit_code = "1") => (ConfigFailed \/ AuthFailed)

(***************************************************************************)
(* The parameters of a search request.                                     *)
(***************************************************************************)
\* The region code the caller of search_by_coordinates passes: main() passes
\* wigle_state_code, search_multiple_ssids() passes none.
SuppliedStateCode == IF driver = "main" THEN wigle_state_code ELSE <<>>

\* C21: every search call carries the box as latrange1 = south, latrange2 =
\* north, longrange1 = west, longrange2 = east and ssidlike = the pattern; it
\* carries a state parameter if and only if its caller supplied a region code,
\* and then that code, for every pattern of the scan.
C21_SearchParameters ==
    last_call.made =>
        /\ last_call.params.ssidlike = searched[Len(searched)]
        /\ last_call.params.latrange1 = bounding_box.south
        /\ last_call.params.latrange2 = bounding_box.north
        /\ last_call.params.longrange1 = bounding_box.west
        /\ last_call.params.longrange2 = bounding_box.east
        /\ ("state" \in DOMAIN last_call.params) <=> (SuppliedStateCode # <<>>)
        /\ ("state" \in DOMAIN last_call.params) =>
               last_call.params.state = SuppliedStateCode

\* The second pattern of a scan of main() was sent with the state of the
\* selection, in a box whose edges differ.
C21_Witness ==
    /\ driver = "main"
    /\ last_call.made
    /\ RequestsOf(last_call) >= 1
    /\ Len(searched) = 2
    /\ last_call.params.ssidlike = Pattern2
    /\ "state" \in DOMAIN last_call.params
    /\ last_call.params.state = <<"T", "X">>
    /\ last_call.params.latrange1 < last_call.params.latrange2
    /\ last_call.params.longrange1 < last_call.params.longrange2

(***************************************************************************)
(* The delay before a request.                                             *)
(***************************************************************************)
\* Every request of the events comes right after a sleep of RATE_LIMIT_DELAY.
PrecededByDelay(events) ==
    \A k \in 1..Len(events) :
        events[k] = Request => (k > 1 /\ events[k - 1] = Sleep(RATE_LIMIT_DELAY))

\* The requests of the resolver calls of the last selection, or of the last
\* resolver call.
ResolverEvents ==
    IF "selection_events" \in DOMAIN osm_call THEN osm_call.selection_events
    ELSE IF Called THEN osm_call.events ELSE <<>>

QueriesAndSearchesDelayed ==
    /\ PrecededByDelay(ResolverEvents)
    /\ last_call.made => PrecededByDelay(last_call.events)

\* C22 as stated: every HTTP request of the resolver and of the WiGLE client,
\* the retry after a 429 included, comes right after the rate-limit delay.
C22_DelayBeforeEveryRequest ==
    /\ QueriesAndSearchesDelayed
    /\ \A k \in 1..Len(auth_log) : PrecededByDelay(auth_log[k].events)

\* C22: every request of query_overpass and of make_wigle_request, the retry
\* after a 429 included, comes right after the rate-limit delay; the probe of
\* authenticate_wigle is sent with no sleep before it.
C22_DelayBeforeQueriesAndSearches ==
    /\ QueriesAndSearchesDelayed
    /\ \A k \in 1..Len(auth_log) :
           auth_log[k].probed => auth_log[k].events = <<Request>>

\* After a probe, a selection whose second query was retried and a search that
\* was retried.
C22_Witness ==
    /\ auth_log # <<>> /\ auth_log[1].probed
    /\ "selection_events" \in DOMAIN osm_call
    /\ Cardinality({k \in 1..Len(ResolverEvents) : ResolverEvents[k] = Request}) = 3
    /\ last_call.made
    /\ RequestsOf(last_call) >= 2

(***************************************************************************)
(* The ZIP-code step of the script.                                        *)
(***************************************************************************)
ZipFiltered == driver = "flockfinder.py" /\ pc \in {"step4", "done"}

\* The postal code of the record is a key of ZIPCODES.
InRegion(network) ==
    /\ "postalcode" \in DOMAIN network
    /\ \E k \in 1..Len(ZIPCODES) : ZIPCODES[k].key = network.postalcode

\* The positions of the input of step 3 whose record is in the region, and
\* the j-th of them.
RegionPositions == {i \in 1..Len(filtered_networks) : InRegion(filtered_networks[i])}
NthRegionPosition(j) ==
    CHOOSE i \in RegionPositions : Cardinality({m \in RegionPositions : m <= i}) = j

\* C23: the ZIP-code step keeps a record if and only if its postal code is a
\* key of the lookup, in input order, each kept record being the input record
\* with the city/county entry of its key attached; the other records, among
\* them those without a postal code, are not in the result.
C23_KeptIffPostalCodeIsKey ==
    ZipFiltered =>
        /\ Len(final_networks) = Cardinality(RegionPositions)
        /\ \A j \in 1..Len(final_networks) :
              LET input == filtered_networks[NthRegionPosition(j)]
                  kept == final_networks[j]
              IN  /\ DOMAIN kept = DOMAIN input \cup {"zip_info"}
                  /\ \A f \in DOMAIN input : kept[f] = input[f]
                  /\ \E k \in 1..Len(ZIPCODES) :
                        /\ ZIPCODES[k].key = input.postalcode
                        /\ kept.zip_info = ZIPCODES[k].value

\* Step 3 got a record of each ZIP code, one without a postal code and kept
\* the first two.
C23_Witness ==
    /\ ZipFiltered
    /\ Len(filtered_networks) = 3
    /\ get(filtered_networks[1], "postalcode", None) = Str("75009")
    /\ "postalcode" \notin DOMAIN filtered_networks[2]
    /\ get(filtered_networks[3], "postalcode", None) = Str("75007")
    /\ Len(final_networks) = 2
    /\ final_networks[1].zip_info.city = "Celina"
    /\ final_networks[2].zip_info.county = "Dallas"

(***************************************************************************)
(* The codes of the divisions.                                             *)
(***************************************************************************)
TagOf(element, key) ==
    IF "tags" \in DOMAIN element /\ key \in DOMAIN element.tags
    THEN element.tags[key] ELSE <<>>

HasCountryPrefix(iso) == Len(iso) >= 3 /\ SubSeq(iso, 1, 3) = <<"U", "S", "-">>

\* The code of an element: the ISO3166-2 tag after its country prefix, else
\* the ref tag, else the ref:USPS tag, else the OSM id in decimal.
DerivedCode(element) ==
    IF HasCountryPrefix(TagOf(element, "ISO3166-2"))
    THEN SubSeq(TagOf(element, "ISO3166-2"), 4, Len(TagOf(element, "ISO3166-2")))
    ELSE IF TagOf(element, "ref") # <<>> THEN TagOf(element, "ref")
    ELSE IF TagOf(element, "ref:USPS") # <<>> THEN TagOf(element, "ref:USPS")
    ELSE IF "id" \in DOMAIN element THEN str(element.id)
    ELSE <<>>

\* The call built its mapping from the elements of a 200 answer and
\* returned it.
BuiltFromElements ==
    /\ Called /\ osm_call.op = "admin"
    /\ osm_call.queried
    /\ ~osm_call.raised
    /\ ~FailedAnswer(Terminal(osm_call))

\* C24: every division of the returned mapping has a non-empty code; a
\* mapping built from a response holds each element under its derived code
\* (ISO3166-2 code, else ref tag, else OSM id), and holds no element whose
\* derived code is empty.
C24_DivisionCodesNonEmpty ==
    (Called /\ osm_call.op = "admin") =>
        /\ \A k \in 1..Len(osm_call.result) : osm_call.result[k].key # <<>>
        /\ BuiltFromElements =>
              LET elements == Terminal(osm_call).body.elements
              IN  /\ \A i \in 1..Len(elements) :
                        IF DerivedCode(elements[i]) = <<>>
                        THEN \A k \in 1..Len(osm_call.result) :
                                 osm_call.result[k].value.osm_id # elements[i].id
                        ELSE \E k \in 1..Len(osm_call.result) :
                                 /\ osm_call.result[k].key = DerivedCode(elements[i])
                                 /\ osm_call.result[k].value.osm_id = elements[i].id
                  /\ \A k \in 1..Len(osm_call.result) :
                        \E i \in 1..Len(elements) :
                            osm_call.result[k].key = DerivedCode(elements[i])

\* A response with an ISO-coded element, one coded by its ref tag, one coded
\* by its id and one without a code gave a mapping of three divisions.
C24_Witness ==
    /\ BuiltFromElements
    /\ Len(Terminal(osm_call).body.elements) = 4
    /\ Len(osm_call.result) = 3
    /\ osm_call.result[1].key = <<"C", "A">>
    /\ osm_call.result[2].key = <<"4", "2">>
    /\ osm_call.result[3].key = <<"D", "C">>

(***************************************************************************)
(* The coordinates of a division.                                          *)
(***************************************************************************)
HasLonLat(node) == "lon" \in DOMAIN node /\ "lat" \in DOMAIN node

\* The (lon, lat) pairs of the nodes of a member that is a way with geometry.
WayPairs(member) ==
    IF "type" \in DOMAIN member /\ member.type = "way" /\ "geometry" \in DOMAIN member
    THEN LET nodes == SelectSeq(member.geometry, HasLonLat)
         IN  [k \in 1..Len(nodes) |-> <<nodes[k].lon, nodes[k].lat>>]
    ELSE <<>>

\* The pairs of all ways of an element, in member and node order.
AllWayPairs(element) ==
    IF "members" \in DOMAIN element
    THEN Concat([k \in 1..Len(element.members) |-> WayPairs(element.members[k])])
    ELSE <<>>

\* Every division of the returned mapping holds all way nodes of its element.
CoordinatesAreAllWayNodes ==
    BuiltFromElements =>
        \A i \in 1..Len(Terminal(osm_call).body.elements),
           k \in 1..Len(osm_call.result) :
            osm_call.result[k].value.osm_id = Terminal(osm_call).body.elements[i].id
                => JsonOfCoordinates(osm_call.result[k].value.coordinates)
                       = AllWayPairs(Terminal(osm_call).body.elements[i])

\* C25: the coordinates of a division are the (lon, lat) pairs of all nodes
\* that carry both, of all members of type way with geometry, in member and
\* node order; other members contribute nothing.
C25_CoordinatesAreAllWayNodes ==
    CoordinatesAreAllWayNodes

(***************************************************************************)
(* clean_network_data.                                                     *)
(***************************************************************************)
Cleaned == driver = "clean_network_data" /\ pc = "returned"

\* The value of a field that is present and not null, else of the second.
FieldOr(network, first, second) ==
    IF first \in DOMAIN network /\ network[first] # None THEN network[first]
    ELSE IF second \in DOMAIN network THEN network[second]
    ELSE None

IsNumberIn(v, low, high) == "num" \in DOMAIN v /\ low <= v.num /\ v.num <= high

\* A non-empty BSSID and coordinates inside the ranges, bounds and 0 included.
WellFormed(network) ==
    /\ "netid" \in DOMAIN network /\ network.netid # <<>>
    /\ IsNumberIn(FieldOr(network, "trilat", "latitude"), -90, 90)
    /\ IsNumberIn(FieldOr(network, "trilong", "longitude"), -180, 180)

WellFormedPositions == {i \in 1..Len(all_networks) : WellFormed(all_networks[i])}
NthWellFormed(j) ==
    CHOOSE i \in WellFormedPositions :
        Cardinality({m \in WellFormedPositions : m <= i}) = j

\* The fields of a record that hold a value.
FilledFields(network) ==
    {f \in DOMAIN network : network[f] # None /\ network[f] # Str("") /\ network[f] # <<>>}

\* The result is the well-formed records of the input, in input order, each
\* with its filled fields.
KeepsExactlyWellFormed ==
    /\ Len(final_networks) = Cardinality(WellFormedPositions)
    /\ \A j \in 1..Len(final_networks) :
          LET input == all_networks[NthWellFormed(j)]
          IN  /\ DOMAIN final_networks[j] = FilledFields(input)
              /\ \A f \in FilledFields(input) : final_networks[j][f] = input[f]

\* A coordinate of the record is the number 0.
HasZeroCoordinate(network) ==
    \E f \in {"trilat", "trilong"} : f \in DOMAIN network /\ network[f] = Num(0)

\* C26: clean_network_data keeps exactly the records that have a non-empty
\* BSSID and coordinates inside the ranges, the bounds and the value 0
\* included, in input order.
C26_CleanKeepsWellFormed ==
    Cleaned => KeepsExactlyWellFormed

(***************************************************************************)
(* Requests and authentication.                                            *)
(***************************************************************************)
SomeAuthenticationSucceeded == \E k \in 1..Len(auth_log) : auth_log[k].ok

\* C27: a WiGLE API request sends an HTTP request only if an earlier
\* authenticate call returned true; before any authentication and after a
\* failed one it returns no data and sends nothing.
C27_RequestOnlyAfterSuccessfulAuthentication ==
    last_call.made =>
        /\ RequestsOf(last_call) > 0 => SomeAuthenticationSucceeded
        /\ ~SomeAuthenticationSucceeded =>
               (last_call.data = None /\ last_call.events = <<>>)

(***************************************************************************)
(* The debug flag.                                                         *)
(***************************************************************************)
\* What the call would have built from the same response with the debug
\* flag the other way round.
ResultWithFlagFlipped ==
    divisions_loop(Terminal(osm_call).body.elements, osm_call.asked.admin_level,
                   ~DEBUG_MODE, <<>>)

\* The bounding box of each division of a mapping.
BoxesOf(mapping) ==
    [k \in 1..Len(mapping) |-> calculate_bounding_box(mapping[k].value.coordinates)]

\* C28: for the same Overpass response, get_admin_divisions run with
\* DEBUG_MODE on and run with DEBUG_MODE off return the same divisions with
\* the same coordinates, and so the same bounding boxes.
C28_DebugFlagOnlyPrints ==
    BuiltFromElements =>
        /\ osm_call.result = ResultWithFlagFlipped
        /\ BoxesOf(osm_call.result) = BoxesOf(ResultWithFlagFlipped)

\* No way of the response has more than twelve nodes.
ShortWaysOnly ==
    \A i \in 1..Len(Terminal(osm_call).body.elements) :
        LET element == Terminal(osm_call).body.elements[i]
        IN  \A m \in 1..Len(element.members) :
                "geometry" \in DOMAIN element.members[m]
                    => Len(element.members[m].geometry) <= 12

(***************************************************************************)
(* What a call leaves of the cache.                                        *)
(***************************************************************************)
\* The call queried and its query gave no data or no elements array.
QueryFailed(call) ==
    call.op # "none" /\ call.queried /\ FailedAnswer(Terminal(call))

\* C29: a call whose query fails leaves every cache file as it was: none is
\* created and a stale entry keeps its payload and its timestamp; and no call
\* changes the file of another key.
C29_FailedQueryLeavesCache ==
    [][osm_calls' = osm_calls + 1 =>
          /\ QueryFailed(osm_call') => cache' = cache
          /\ \A f \in CacheFiles : f # osm_call'.file => cache'[f] = cache[f]]_vars

\* A failed query of a call that had found a stale entry, which is still
\* there with the timestamp the call found.
C29_Witness ==
    /\ QueryFailed(osm_call)
    /\ osm_call.found
    /\ Age(osm_call) > 86400
    /\ cache[osm_call.file].exists
    /\ cache[osm_call.file].timestamp = osm_call.found_timestamp
    /\ cache[osm_call.file].dumped # <<>>

(***************************************************************************)
(* Filtering and deduplication in both orders.                             *)
(***************************************************************************)
BothOrdersDone == driver = "caller" /\ pc = "both_orders"

\* C30: deduplicating by BSSID and then filtering by prefix gives the same
\* sequence of records as filtering by prefix and then deduplicating.
C30_FilterAndDedupCommute ==
    BothOrdersDone => final_networks = filtered_networks

\* A list in which a Flock device occurs twice, with different SSIDs, before
\* and after a device of another maker: both orders give the first record.
C30_Witness ==
    /\ BothOrdersDone
    /\ Len(all_networks) = 3
    /\ all_networks[1].ssid # all_networks[3].ssid
    /\ get(all_networks[1], "netid", <<>>) = FlockId
    /\ get(all_networks[2], "netid", <<>>) = OtherId
    /\ get(all_networks[3], "netid", <<>>) = FlockId
    /\ final_networks = <<all_networks[1]>>
    /\ filtered_networks = <<all_networks[1]>>

====
